---- MODULE Spec2Model ----
(***************************************************************************)
(* Model of the on-board telemetry sketch (code/Arduino/ONBOARD.ino):      *)
(* calibration at startup, the sensor-fusion part of loop() with the       *)
(* magnetometer heading it logs, and the tach interrupt.                   *)
(*                                                                         *)
(* Number representation.  The sketch computes in 32-bit floats; the model *)
(* computes on fixed grids and rounds every stored value to the grid:      *)
(*   acceleration   milli-g            (1 g        = 1000)                 *)
(*   angular rate   milli-deg/s        (1 deg/s    = 1000)                 *)
(*   roll, pitch    1/10000 degree     (1 degree   = 10000)                *)
(*   yaw angles     2^-20 degree       (1 degree   = 1048576)              *)
(*   time step dt   microseconds       (0.1 s      = 100000)               *)
(*   speed          mph                (integers)                          *)
(* The yaw angles are wrapped at 0, 180 and 360 degrees, where the result  *)
(* of a float addition depends on its rounding: every sum and difference   *)
(* of yaw angles is rounded as binary32 rounds it, to 24 significant bits, *)
(* ties to even (F32).  Below 16 degrees the 2^-20 grid is coarser than    *)
(* binary32 and the grid decides.                                          *)
(* micros() and lastUpdateMicros are 32-bit unsigned; a 32-bit value is    *)
(* the record [hi, lo] of its two 16-bit halves.                           *)
(***************************************************************************)
EXTENDS Integers, Sequences, FiniteSets, TLC

VARIABLES
    \* ---- globals of the sketch ----
    lastUpdateMicros,   \* unsigned long, time of the previous loop() pass
    ax_bias, ay_bias, az_bias, gx_bias, gy_bias, gz_bias,
    rp_initialized, roll_f, pitch_f,
    yaw_gyro, yaw_fused, yaw_initialized,
    ax_lpf, ay_lpf, az_lpf,
    \* ---- locals of the last pass of loop() ----
    nowMicros, dt,
    gx_deg, gy_deg, gz_deg,
    low_dynamic, roll_acc, pitch_acc,
    gpsCourseValid, spd_mph, yaw_gps, yaw_mode,
    magOK, yaw_mag,
    \* ---- whether the last pass of loop() called computeMagYawDeg ----
    mag_evaluated,
    \* ---- number of passes of loop() so far ----
    iter,
    \* ---- startup: which of setup() and loop() runs, and the locals of
    \* ---- autoCalibrateIMU: raw reads made, the sample last read, the sums,
    \* ---- and the samples the averaging loop has read, in order ----
    pc, cal_reads, cal_sample,
    sum_ax, sum_ay, sum_az, sum_gx, sum_gy, sum_gz,
    cal_window,
    \* ---- tach state shared with rpmISR ----
    tach_pulseCount, tach_lastPulseMicros, tach_minDtUs,
    \* ---- the tach snapshot of loop(): whether interrupts are masked, the
    \* ---- statement of lines 505-510 to run next ("out" outside them), and
    \* ---- the locals pulses and minDtUs ----
    int_masked, tach_pc, pulses, minDtUs,
    \* ---- runs of rpmISR so far, and the sum of the pulse counts printed
    \* ---- and logged so far ----
    isr_calls, tach_reported,
    \* ---- a second sketch, run beside this one on the same IMU samples,
    \* ---- times and GPS fixes and on magnetometer readings of its own:
    \* ---- its filter state, yaw_mode, magOK and yaw_mag ----
    twin,
    \* ---- an angle helper called on its own: argument and results ----
    wrap_a, wrap_r360, wrap_r180, wrap_done,
    \* ---- the lap timer (Lidar.ino), a sketch of its own on a board of
    \* ---- its own: its globals, as the fields of one record ----
    lapTimer,
    \* ---- what the lap timer was last given and what it last did: the
    \* ---- millis() clock, the last operation with its inputs and its
    \* ---- answer, and the lap times summed since the last arming ----
    lapEnv

vars == << lastUpdateMicros, ax_bias, ay_bias, az_bias, gx_bias, gy_bias, gz_bias,
           rp_initialized, roll_f, pitch_f, yaw_gyro, yaw_fused, yaw_initialized,
           ax_lpf, ay_lpf, az_lpf, nowMicros, dt, gx_deg, gy_deg, gz_deg,
           low_dynamic, roll_acc, pitch_acc, gpsCourseValid, spd_mph, yaw_gps,
           yaw_mode, magOK, yaw_mag, mag_evaluated, iter, twin, pc, cal_reads, cal_sample, sum_ax, sum_ay, sum_az,
           sum_gx, sum_gy, sum_gz, cal_window,
           tach_pulseCount, tach_lastPulseMicros, tach_minDtUs,
           int_masked, tach_pc, pulses, minDtUs, isr_calls, tach_reported,
           wrap_a, wrap_r360, wrap_r180, wrap_done, lapTimer, lapEnv >>

\* The variables of the lap timer.
lapVars == << lapTimer, lapEnv >>

\* The variables of the angle helpers called on their own.
wrapVars == << wrap_a, wrap_r360, wrap_r180, wrap_done >>

\* The variables of autoCalibrateIMU and of the startup sequence.
calVars == << pc, cal_reads, cal_sample, sum_ax, sum_ay, sum_az, sum_gx, sum_gy,
              sum_gz, cal_window >>

\* The six bias globals.
biasVars == << ax_bias, ay_bias, az_bias, gx_bias, gy_bias, gz_bias >>

\* The globals of the sketch other than the biases, and the locals of loop().
loopVars == << lastUpdateMicros, rp_initialized, roll_f, pitch_f, yaw_gyro,
               yaw_fused, yaw_initialized, ax_lpf, ay_lpf, az_lpf, nowMicros, dt,
               gx_deg, gy_deg, gz_deg, low_dynamic, roll_acc, pitch_acc,
               gpsCourseValid, spd_mph, yaw_gps, yaw_mode, magOK, yaw_mag,
               mag_evaluated, iter >>

\* The tach state rpmISR writes, the snapshot loop() takes of it, and the
\* two counts kept of it.
tachVars == << tach_pulseCount, tach_lastPulseMicros, tach_minDtUs,
               int_masked, tach_pc, pulses, minDtUs, isr_calls, tach_reported >>

\* The globals of the sketch and the locals of its functions.
sketchVars == << biasVars, loopVars, calVars, tachVars, twin >>

-----------------------------------------------------------------------------
(* Bounds and units *)

\* Passes of loop() explored.
MaxIter == 3

\* Full turns, either way, of the arguments the angle helpers are called on.
MaxTurns == 3

\* Samples autoCalibrateIMU averages (the argument samples, 500 by default).
CalSamples == 2

\* Passes of loop() explored after a calibration on any samples.
MaxCalIter == 1

\* Tach pulses explored between two snapshots of the tach state.
MaxPulses == 2

\* Passes of loop() explored with two sketches side by side.
MaxMagIter == 2

\* Passes of loop() explored statement by statement around the tach snapshot.
MaxSnaps == 2

\* n degrees on the roll/pitch grid.
Deg(n) == n * 10000

\* n degrees on the yaw grid.
Deg32(n) == n * 1048576

Abs(x) == IF x < 0 THEN -x ELSE x

\* n / d rounded to the nearest integer (d > 0), halves upward.
RoundDiv(n, d) == (2 * n + d) \div (2 * d)

\* The unit in the last place of a binary32 number of magnitude m * u.
RECURSIVE Ulp32(_, _)
Ulp32(m, u) == IF m < 16777216 THEN u ELSE Ulp32(m \div 2, 2 * u)

\* x rounded to binary32: 24 significant bits, ties to the even significand.
F32(x) ==
    LET m  == Abs(x)
        u  == Ulp32(m, 1)
        q  == m \div u
        r  == m % u
        up == 2 * r > u \/ (2 * r = u /\ q % 2 = 1)
        v  == (IF up THEN q + 1 ELSE q) * u
    IN  IF x < 0 THEN -v ELSE v

\* Integer square root (rounded down) by Newton's iteration from a guess g
\* that is not below it.
RECURSIVE SqrtFloor(_, _)
SqrtFloor(n, g) ==
    LET h == (g + n \div g) \div 2
    IN  IF h >= g THEN g ELSE SqrtFloor(n, h)

\* Square root rounded to the nearest integer, for 0 <= n < 2^31.
sqrtf(n) ==
    LET r == IF n = 0 THEN 0
             ELSE SqrtFloor(n, IF n < 1048576 THEN 1024
                               ELSE IF n < 16777216 THEN 4096 ELSE 46341)
    IN  IF n - r * r > r THEN r + 1 ELSE r

\* atan(k/16) for k = 0..16 on the angle grid.
AtanTable == << 0, 35763, 71250, 106197, 140362, 173540, 205560, 236294, 265651,
                293578, 320054, 345085, 368699, 390939, 411859, 431524, 450000 >>

\* atan(n/d) for 0 <= n <= d, d > 0: the table, interpolated linearly.
AtanRatio(n, d) ==
    LET k == (16 * n) \div d
        r == 16 * n - k * d
    IN  IF k >= 16 THEN AtanTable[17]
        ELSE AtanTable[k + 1] + RoundDiv((AtanTable[k + 2] - AtanTable[k + 1]) * r, d)

\* atan2f(y, x) * 180 / PI, in (-180, 180] degrees.
atan2fDeg(y, x) ==
    LET a    == Abs(y)
        b    == Abs(x)
        base == IF a = 0 /\ b = 0 THEN 0
                ELSE IF a <= b THEN AtanRatio(a, b)
                ELSE Deg(90) - AtanRatio(b, a)
    IN  IF x >= 0 THEN (IF y >= 0 THEN base ELSE -base)
        ELSE (IF y >= 0 THEN Deg(180) - base ELSE base - Deg(180))

\* 10000 * sin of 0, 5, ..., 90 degrees.
SinTable == << 0, 872, 1736, 2588, 3420, 4226, 5000, 5736, 6428, 7071, 7660,
               8192, 8660, 9063, 9397, 9659, 9848, 9962, 10000 >>

\* 10000 * sin(r) for 0 <= r <= 90 degrees on the roll/pitch grid: the
\* table, interpolated linearly.
SinQuarter(r) ==
    LET k == r \div Deg(5)
    IN  IF k >= 18 THEN SinTable[19]
        ELSE SinTable[k + 1]
             + RoundDiv((SinTable[k + 2] - SinTable[k + 1]) * (r - k * Deg(5)), Deg(5))

\* 10000 * sinf(a * PI / 180), a on the roll/pitch grid.
sinfDeg(a) ==
    LET r == a % Deg(360)
    IN  IF r <= Deg(90) THEN SinQuarter(r)
        ELSE IF r <= Deg(180) THEN SinQuarter(Deg(180) - r)
        ELSE IF r <= Deg(270) THEN -SinQuarter(r - Deg(180))
        ELSE -SinQuarter(Deg(360) - r)

\* 10000 * cosf(a * PI / 180), a on the roll/pitch grid.
cosfDeg(a) == sinfDeg(a + Deg(90))

\* An angle of the roll/pitch grid on the yaw grid: v * 2^20 / 10000.
RpToYaw(v) == (v \div 625) * 65536 + RoundDiv((v % 625) * 65536, 625)

-----------------------------------------------------------------------------
(* 32-bit unsigned time stamps *)

U32(h, l) == [hi |-> h, lo |-> l]

\* a - b modulo 2^32.
Sub32(a, b) ==
    LET l      == a.lo - b.lo
        borrow == IF l < 0 THEN 1 ELSE 0
    IN  U32((a.hi - b.hi - borrow) % 65536, l % 65536)

\* 100000 = 1 * 65536 + 34464
ElapsedOver100ms(e) == e.hi > 1 \/ (e.hi = 1 /\ e.lo > 34464)

ElapsedZero(e) == e.hi = 0 /\ e.lo = 0

\* a < b, unsigned.
Less32(a, b) == a.hi < b.hi \/ (a.hi = b.hi /\ a.lo < b.lo)

\* 0xFFFFFFFF
Max32 == U32(65535, 65535)

-----------------------------------------------------------------------------
(* Configuration constants *)

accelAlpha == 2                  \* 0.2, in tenths
compAlpha == 98                  \* 0.98, in hundredths
GPS_SPEED_INIT_MPH == 5
GPS_SPEED_MIN_MPH == 12
GPS_LAT_ACC_THRESH_G == 150      \* 0.15 g
GPS_YAWRATE_THRESH_DPS == 25000  \* 25 deg/s
GPS_CORR_GAIN == 15              \* 0.15, in hundredths

\* Reads autoCalibrateIMU makes and discards before it averages (line 209).
SettleReads == 50

-----------------------------------------------------------------------------
(* Angle helpers *)

\* Each helper is two while loops, one after the other: the second loop's
\* result is returned without going through the first again.  a -= 360.0f
\* and a += 360.0f round their result to binary32.
RECURSIVE WhileAbove(_, _)
WhileAbove(a, limit) ==
    IF a > limit THEN WhileAbove(F32(a - Deg32(360)), limit) ELSE a

RECURSIVE WhileAtLeast(_, _)
WhileAtLeast(a, limit) ==
    IF a >= limit THEN WhileAtLeast(F32(a - Deg32(360)), limit) ELSE a

RECURSIVE WhileBelow(_, _)
WhileBelow(a, limit) ==
    IF a < limit THEN WhileBelow(F32(a + Deg32(360)), limit) ELSE a

wrapAngle180(a) == WhileBelow(WhileAbove(a, Deg32(180)), -Deg32(180))

wrapAngle360(a) == WhileBelow(WhileAtLeast(a, Deg32(360)), 0)

-----------------------------------------------------------------------------
(* IMU *)

\* readMPU with the gyro biases removed and the accel biases left in.
readMPU_GyroOnly(raw) ==
    [ax |-> raw.ax, ay |-> raw.ay, az |-> raw.az,
     gx |-> raw.gx - gx_bias, gy |-> raw.gy - gy_bias, gz |-> raw.gz - gz_bias]

\* readMPU: the raw sample minus the stored biases.
readMPU(raw) ==
    [ax |-> raw.ax - ax_bias, ay |-> raw.ay - ay_bias, az |-> raw.az - az_bias,
     gx |-> raw.gx - gx_bias, gy |-> raw.gy - gy_bias, gz |-> raw.gz - gz_bias]

\* getAccelRP: roll and pitch of an acceleration vector.
getAccelRP(ax, ay, az) ==
    LET norm == sqrtf(ax * ax + ay * ay + az * az)
        nx   == IF norm > 0 THEN RoundDiv(ax * 1000, norm) ELSE ax
        ny   == IF norm > 0 THEN RoundDiv(ay * 1000, norm) ELSE ay
        nz   == IF norm > 0 THEN RoundDiv(az * 1000, norm) ELSE az
    IN  [roll  |-> atan2fDeg(ny, nz),
         pitch |-> atan2fDeg(-nx, sqrtf(ny * ny + nz * nz))]

\* One axis of the accel low-pass filter.
LowPass(sample, prev) == RoundDiv(accelAlpha * sample + (10 - accelAlpha) * prev, 10)

\* low_dynamic = fabs(acc_norm - 1.0f) < 0.15f, with acc_norm the length of
\* the filtered vector: 0.85 < acc_norm < 1.15, compared on the squares so
\* that rounding the root to the milli-g grid does not move the boundary.
LowDynamic(ax, ay, az) ==
    LET n2 == ax * ax + ay * ay + az * az
    IN  850 * 850 < n2 /\ n2 < 1150 * 1150

\* rate * dt on the roll/pitch grid: rate * t / 100000, with the rate split
\* into whole deg/s and the rest so that no product leaves 32 bits.
GyroStep(rate, t) ==
    LET n == (rate \div 1000) * t
    IN  n \div 100 + RoundDiv((n % 100) * 1000 + (rate % 1000) * t, 100000)

\* rate * dt on the yaw grid: dt on the 2^-20 s grid (t * 1.048576), times
\* the rate split in the same way.
YawStep(rate, t) ==
    LET tb == t + RoundDiv(t * 3036, 62500)
    IN  (rate \div 1000) * tb + RoundDiv((rate % 1000) * tb, 1000)

-----------------------------------------------------------------------------
(* Inputs of one pass of loop() *)

\* Values micros() returns.  setup() leaves lastUpdateMicros just before the
\* 32-bit wrap; the differences modulo 2^32 then cover 1 ms across the wrap
\* (a pass of loop() that does not log), 0, exactly 100 ms, 4.9 s, exactly
\* 5 s, and the huge values that a smaller later reading gives.
Micros_BeforeWrap == U32(65535, 65036)     \* 2^32 - 500
Micros_AfterWrap == U32(0, 500)            \* 500
Micros_100ms == U32(1, 34964)              \* 100500
Micros_5s == U32(76, 19764)                \* 5000500

MicrosSamples == { Micros_AfterWrap, Micros_100ms, Micros_5s }

\* Raw IMU samples readMPURaw delivers: acceleration in milli-g, rate in
\* milli-deg/s (one count of the gyro is 1/131 deg/s, about 8).
Raw(x, y, z, p, q, r) == [ax |-> x, ay |-> y, az |-> z, gx |-> p, gy |-> q, gz |-> r]

RawSamples ==
    { Raw(0, 0, 1000, 0, 0, 0),          \* level, at rest
      Raw(100, 0, 1000, 5000, -5000, 10000),    \* nose slightly up, turning gently
      Raw(0, -750, 1000, 0, 0, 0),       \* leaning: filtered ay reaches -0.15 g
      Raw(0, -150, 1000, 0, 0, -8),      \* the same lean, held; gz one count low
      Raw(0, 0, 2000, 20000, -10000, -25000) }  \* 2 g bump, yaw rate at the threshold

\* Raw IMU samples of a car standing still: the ideal one, and two with
\* sensor offset and noise.
Still == Raw(0, 0, 1000, 0, 0, 0)

CalRaws ==
    { Still,
      Raw(20, -12, 1016, 300, -200, 8),
      Raw(-30, 9, 985, -100, 400, 0) }

\* What readMag finds on the bus: no answer, or the three raw counts.
Mag(answers, x, y, z) == [ok |-> answers, rawX |-> x, rawY |-> y, rawZ |-> z]

MagNone == Mag(FALSE, 0, 0, 0)

MagReadings == { MagNone, Mag(TRUE, 200, 0, -400), Mag(TRUE, -100, 300, 150) }

\* GPS fixes TinyGPSPlus holds: validity of course and of speed, speed in
\* mph, course in degrees on the angle grid.
Fix(cv, sv, mph, course) ==
    [courseValid |-> cv, speedValid |-> sv, mph |-> mph, course |-> course]

GpsFixes ==
    { Fix(FALSE, TRUE, 30, Deg32(110)),    \* fast, no valid course
      Fix(TRUE, TRUE, 5, Deg32(100)),      \* at the alignment speed
      Fix(TRUE, TRUE, 12, Deg32(100)),     \* at the correction speed
      Fix(TRUE, TRUE, 13, Deg32(110)),
      Fix(TRUE, TRUE, 40, Deg32(360)),     \* due north, reported as 360
      Fix(TRUE, TRUE, 40, Deg32(250)) }    \* more than 180 degrees from north

-----------------------------------------------------------------------------
(* The stages of loop() *)

\* ClampDt with an out-of-range interval replaced by the upper limit 0.1 s.
ClampDt_ToMax(e) ==
    IF ElapsedZero(e) \/ ElapsedOver100ms(e) THEN 100000
    ELSE e.hi * 65536 + e.lo

\* dt in microseconds from the elapsed time: out of (0, 0.1 s] gives 0.01 s.
ClampDt(e) ==
    IF ElapsedZero(e) \/ ElapsedOver100ms(e) THEN 10000
    ELSE e.hi * 65536 + e.lo

\* CompFilter blending with the accelerometer angle in every running pass.
CompFilter_AlwaysBlend(initialized, angle_f, rate, t, lowdyn, angle_acc) ==
    IF ~initialized THEN angle_acc
    ELSE LET angle_gyro == angle_f + GyroStep(rate, t)
         IN  RoundDiv(compAlpha * angle_gyro + (100 - compAlpha) * angle_acc, 100)

\* CompFilter with the accelerometer weight accelAlpha instead of 1 - compAlpha.
CompFilter_WrongWeight(initialized, angle_f, rate, t, lowdyn, angle_acc) ==
    IF ~initialized THEN angle_acc
    ELSE LET angle_gyro == angle_f + GyroStep(rate, t)
         IN  IF lowdyn
             THEN RoundDiv(compAlpha * angle_gyro + 10 * accelAlpha * angle_acc, 100)
             ELSE angle_gyro

\* CompFilter integrating the gyro rate already on the seeding pass.
CompFilter_SeedWithGyro(initialized, angle_f, rate, t, lowdyn, angle_acc) ==
    LET angle_gyro == (IF initialized THEN angle_f ELSE angle_acc) + GyroStep(rate, t)
    IN  IF initialized /\ lowdyn
        THEN RoundDiv(compAlpha * angle_gyro + (100 - compAlpha) * angle_acc, 100)
        ELSE angle_gyro

\* Roll or pitch: seeded from the accelerometer angle on the first pass,
\* afterwards gyro integration, blended with the accelerometer angle when
\* the dynamics are low.
CompFilter(initialized, angle_f, rate, t, lowdyn, angle_acc) ==
    IF ~initialized THEN angle_acc
    ELSE LET angle_gyro == angle_f + GyroStep(rate, t)
         IN  IF lowdyn
             THEN RoundDiv(compAlpha * angle_gyro + (100 - compAlpha) * angle_acc, 100)
             ELSE angle_gyro

\* IntegrateYaw continuing from the corrected yaw_fused of the previous pass.
IntegrateYaw_FromFused(yaw, rate, t) ==
    wrapAngle360(F32(yaw_fused + YawStep(rate, t)))

\* Yaw integration.
IntegrateYaw(yaw, rate, t) == wrapAngle360(F32(yaw + YawStep(rate, t)))

\* YawAlign without the test of yaw_initialized.
YawAlign_Repeated(initialized, courseValid, mph) ==
    courseValid /\ mph > GPS_SPEED_INIT_MPH

\* YawAlign with the correction speed threshold instead of the alignment one.
YawAlign_MinSpeed(initialized, courseValid, mph) ==
    ~initialized /\ courseValid /\ mph > GPS_SPEED_MIN_MPH

\* Condition of the initial alignment of yaw from the GPS course.
YawAlign(initialized, courseValid, mph) ==
    ~initialized /\ courseValid /\ mph > GPS_SPEED_INIT_MPH

\* UseGPS with hysteresis: once corrected, stay corrected while a course exists.
UseGPS_Sticky(initialized, courseValid, mph, lat_g, gz) ==
    /\ initialized
    /\ courseValid
    /\ \/ yaw_mode = 1
       \/ /\ mph > GPS_SPEED_MIN_MPH
          /\ Abs(lat_g) < GPS_LAT_ACC_THRESH_G
          /\ Abs(gz) < GPS_YAWRATE_THRESH_DPS

\* UseGPS without the speed gate.
UseGPS_NoSpeedGate(initialized, courseValid, mph, lat_g, gz) ==
    /\ initialized
    /\ courseValid
    /\ Abs(lat_g) < GPS_LAT_ACC_THRESH_G
    /\ Abs(gz) < GPS_YAWRATE_THRESH_DPS

\* useGPS: the conditions to trust the GPS course.
UseGPS(initialized, courseValid, mph, lat_g, gz) ==
    /\ initialized
    /\ courseValid
    /\ mph > GPS_SPEED_MIN_MPH
    /\ Abs(lat_g) < GPS_LAT_ACC_THRESH_G
    /\ Abs(gz) < GPS_YAWRATE_THRESH_DPS

\* GPS_CORR_GAIN * diff, with diff split so that no product leaves 32 bits.
CorrGain(diff) ==
    F32(GPS_CORR_GAIN * (diff \div 100) + RoundDiv(GPS_CORR_GAIN * (diff % 100), 100))

\* GpsCorrect with the whole difference applied: a snap to the course.
GpsCorrect_Snap(yaw, course) ==
    wrapAngle360(F32(yaw + wrapAngle180(F32(course - yaw))))

\* GpsCorrect on the raw difference, not wrapped to the shortest arc.
GpsCorrect_NoWrap180(yaw, course) ==
    wrapAngle360(F32(yaw + CorrGain(F32(course - yaw))))

\* The GPS-corrected yaw.
GpsCorrect(yaw, course) ==
    LET diff == wrapAngle180(F32(course - yaw))
    IN  wrapAngle360(F32(yaw + CorrGain(diff)))

\* yaw_fused: the gyro yaw by default, the GPS-corrected yaw when useGPS.
FuseYaw(useGPS, yaw, course) == IF useGPS THEN GpsCorrect(yaw, course) ELSE yaw

\* readMag (lines 277-307) on what is on the bus: the counts less the bias
\* times the scale (lines 110-111: bias 0, scale 1), or on a bus error
\* false, with mx, my, mz left at the 0 loop() gave them (line 438).
readMag(mag) ==
    IF mag.ok THEN [ok |-> TRUE, mx |-> mag.rawX, my |-> mag.rawY, mz |-> mag.rawZ]
    ELSE [ok |-> FALSE, mx |-> 0, my |-> 0, mz |-> 0]

\* computeMagYawDeg (lines 309-322): the tilt-compensated heading, with
\* magDeclinationDeg = 0 (line 112) added, wrapped to a turn.  The field
\* components are rounded to whole counts.
computeMagYawDeg(roll_deg, pitch_deg, mx, my, mz) ==
    LET sr  == sinfDeg(roll_deg)
        cr  == cosfDeg(roll_deg)
        sp  == sinfDeg(pitch_deg)
        cp  == cosfDeg(pitch_deg)
        mx2 == RoundDiv(mx * cp + mz * sp, 10000)
        my2 == RoundDiv(mx * RoundDiv(sr * sp, 10000) + my * cr
                        - mz * RoundDiv(sr * cp, 10000), 10000)
        heading == atan2fDeg(-my2, mx2)
    IN  wrapAngle360(F32(RpToYaw(heading)))

\* Lines 437-443 with computeMagYawDeg called whether the read succeeded
\* or not.
MagStage_Unchecked(roll, pitch, mag) ==
    LET m == readMag(mag)
    IN  [magOK |-> m.ok, mag_evaluated |-> TRUE,
         yaw_mag |-> computeMagYawDeg(roll, pitch, m.mx, m.my, m.mz)]

\* Lines 437-443: the magnetometer heading, computed when the read
\* succeeded and 0 otherwise.
MagStage(roll, pitch, mag) ==
    LET m == readMag(mag)
    IN  [magOK |-> m.ok, mag_evaluated |-> m.ok,
         yaw_mag |-> IF m.ok THEN computeMagYawDeg(roll, pitch, m.mx, m.my, m.mz)
                     ELSE 0]

-----------------------------------------------------------------------------
(* State machine *)

\* The second sketch at the end of its setup().
TwinStart ==
    [lastUpdateMicros |-> Micros_BeforeWrap,
     rp_initialized |-> FALSE, roll_f |-> 0, pitch_f |-> 0,
     yaw_gyro |-> 0, yaw_fused |-> 0, yaw_initialized |-> FALSE,
     ax_lpf |-> 0, ay_lpf |-> 0, az_lpf |-> 1000,
     yaw_mode |-> 0, magOK |-> FALSE, yaw_mag |-> 0]

-----------------------------------------------------------------------------
(* The lap timer (Lidar.ino): globals and setup() *)

\* Lines 33, 34 and 52 of Lidar.ino: centimetres, milliseconds, entries.
detectionThreshold == 30
MIN_LAP_TIME_MS == 1000
MAX_LAPS_IN_MEMORY == 20

\* The indexes of lapNumbers[] and lapTimesMsArr[] (lines 53-54).
LapSlots == 0 .. (MAX_LAPS_IN_MEMORY - 1)

\* The globals of Lidar.ino as initialized (lines 9-55).  logFile is whether
\* the File object holds an open file; the two arrays are zero-initialized.
\* Distances are centimetres, times milliseconds of millis().
LidarGlobals ==
    [cal_cnt |-> 0, sdOk |-> FALSE, logFile |-> FALSE,
     currentFilename |-> "", currentPrefix |-> "", lapCounter |-> 0,
     midget47Index |-> 0, midget47xIndex |-> 0,
     referenceDist |-> 0, refSet |-> FALSE,
     objectPresent |-> FALSE, lastObjectPresent |-> FALSE,
     lapRunning |-> FALSE, hasStarted |-> FALSE,
     lapStartMs |-> 0, lastLapMs |-> 0, armed |-> FALSE,
     currentDistance |-> 0,
     lapNumbers |-> [i \in LapSlots |-> 0],
     lapTimesMsArr |-> [i \in LapSlots |-> 0],
     lapHistoryCount |-> 0]

\* setup() of Lidar.ino (lines 578-617): of the globals it writes sdOk, by
\* whether SD.begin() succeeds; no CSV file is opened.
setupLidar(g, sdBegins) == [g EXCEPT !.sdOk = sdBegins]

\* Nothing has been sampled or requested: millis() (the model starts the
\* clock at 0 at the end of setup()), the samples taken and the requests
\* served so far, the last operation ("setup", "sample", or the route of a
\* request), the distance it measured, the HTTP status it answered (0 when
\* it answered nothing), the branch of updateLapLogic taken, the lap times
\* passed to logLap and the array indexes written in it; and, since the
\* last handleGo, handleSetRef or handleResetLap, the sum of the lap times
\* assigned to lastLapMs and the times of the first crossing and of the
\* latest crossing that started or completed a lap; and whether the object
\* was in the beam at the last measurement (the last sample differed from
\* the reference then set by more than the threshold; a measurement that
\* sets the reference sees no object).
LapEnvStart ==
    [millis |-> 0, samples |-> 0, requests |-> 0,
     op |-> "setup", dist |-> 0, status |-> 0,
     event |-> "none", logged |-> << >>, writes |-> {},
     sumLaps |-> 0, firstCrossMs |-> 0, lastCrossMs |-> 0,
     beam |-> FALSE]

\* The lap timer is a board of its own: while the logger alone is run it is
\* not powered, and its globals hold nothing.
LidarUnpowered ==
    /\ lapTimer = << >>
    /\ lapEnv = << >>

-----------------------------------------------------------------------------
\* The globals as initialized (lines 69-102); the locals of loop() hold
\* neutral values before the first pass, and the second sketch waits at the
\* end of its setup().
PowerOn ==
    /\ twin = TwinStart
    /\ nowMicros = Micros_BeforeWrap
    /\ ax_bias = 0 /\ ay_bias = 0 /\ az_bias = 0
    /\ gx_bias = 0 /\ gy_bias = 0 /\ gz_bias = 0
    /\ rp_initialized = FALSE /\ roll_f = 0 /\ pitch_f = 0
    /\ yaw_gyro = 0 /\ yaw_fused = 0 /\ yaw_initialized = FALSE
    /\ ax_lpf = 0 /\ ay_lpf = 0 /\ az_lpf = 1000
    /\ dt = 0
    /\ gx_deg = 0 /\ gy_deg = 0 /\ gz_deg = 0
    /\ low_dynamic = TRUE /\ roll_acc = 0 /\ pitch_acc = 0
    /\ gpsCourseValid = FALSE /\ spd_mph = 0 /\ yaw_gps = 0 /\ yaw_mode = 0
    /\ magOK = FALSE /\ yaw_mag = 0 /\ mag_evaluated = FALSE
    /\ iter = 0
    /\ tach_pulseCount = 0
    /\ tach_lastPulseMicros = U32(0, 0)
    /\ tach_minDtUs = Max32
    /\ int_masked = FALSE /\ tach_pc = "out"
    /\ pulses = 0 /\ minDtUs = Max32
    /\ isr_calls = 0 /\ tach_reported = 0

\* setup() has returned after a calibration on CalSamples ideal samples of a
\* car standing still, which leaves the biases at 0 (lines 228-234), and has
\* taken its time stamp (line 389).
InitSketch ==
    /\ PowerOn
    /\ lastUpdateMicros = Micros_BeforeWrap
    /\ pc = "loop"
    /\ cal_reads = SettleReads + CalSamples
    /\ cal_sample = Still
    /\ sum_ax = 0 /\ sum_ay = 0 /\ sum_az = CalSamples * Still.az
    /\ sum_gx = 0 /\ sum_gy = 0 /\ sum_gz = 0
    /\ cal_window = [i \in 1 .. CalSamples |-> Still]

\* No helper call on its own is in progress.
InitWrap == wrap_a = 0 /\ wrap_r360 = 0 /\ wrap_r180 = 0 /\ wrap_done = TRUE

Init == InitSketch /\ InitWrap /\ LidarUnpowered

\* The globals a pass of loop() reads and writes (the filter state), as a
\* record: of this sketch, or of a second one run beside it.
Globals ==
    [lastUpdateMicros |-> lastUpdateMicros,
     rp_initialized |-> rp_initialized, roll_f |-> roll_f, pitch_f |-> pitch_f,
     yaw_gyro |-> yaw_gyro, yaw_fused |-> yaw_fused,
     yaw_initialized |-> yaw_initialized,
     ax_lpf |-> ax_lpf, ay_lpf |-> ay_lpf, az_lpf |-> az_lpf]

\* Lines 406-419 with the low-dynamic flag and the tilt computed from the
\* filtered acceleration of the pass before.
ImuStage_StaleLpf(g, raw) ==
    LET s  == readMPU(raw)
        rp == getAccelRP(g.ax_lpf, g.ay_lpf, g.az_lpf)
    IN  [gx_deg |-> s.gx, gy_deg |-> s.gy, gz_deg |-> s.gz,
         ax_lpf |-> LowPass(s.ax, g.ax_lpf), ay_lpf |-> LowPass(s.ay, g.ay_lpf),
         az_lpf |-> LowPass(s.az, g.az_lpf),
         low_dynamic |-> LowDynamic(g.ax_lpf, g.ay_lpf, g.az_lpf),
         roll_acc |-> rp.roll, pitch_acc |-> rp.pitch]

\* Lines 406-419 on the globals g: the IMU sample with the biases removed,
\* the accel low-pass filter, the low-dynamic flag and the tilt of the
\* filtered acceleration.
ImuStage(g, raw) ==
    LET s   == readMPU(raw)
        axl == LowPass(s.ax, g.ax_lpf)
        ayl == LowPass(s.ay, g.ay_lpf)
        azl == LowPass(s.az, g.az_lpf)
        rp  == getAccelRP(axl, ayl, azl)
    IN  [gx_deg |-> s.gx, gy_deg |-> s.gy, gz_deg |-> s.gz,
         ax_lpf |-> axl, ay_lpf |-> ayl, az_lpf |-> azl,
         low_dynamic |-> LowDynamic(axl, ayl, azl),
         roll_acc |-> rp.roll, pitch_acc |-> rp.pitch]

\* Lines 399-404 and 421-483 on the globals g, after the IMU stage gave
\* imu: time step, complementary filter, GPS fix, yaw integration,
\* alignment and GPS gating.  Each stage's result is bound once, in the
\* order of the code, and used by the stages after it.
FusionStage(g, imu, now, fix) ==
    LET t      == ClampDt(Sub32(now, g.lastUpdateMicros))
        valid  == fix.courseValid
        mph    == IF fix.speedValid THEN fix.mph ELSE 0
        course == wrapAngle360(IF valid THEN fix.course ELSE 0)
        yawInt == IntegrateYaw(g.yaw_gyro, imu.gz_deg, t)
        align  == YawAlign(g.yaw_initialized, valid, mph)
        yawG   == IF align THEN course ELSE yawInt
        yawIni == g.yaw_initialized \/ align
        useGPS == UseGPS(yawIni, valid, mph, imu.ay_lpf, imu.gz_deg)
    IN  [nowMicros |-> now, dt |-> t, lastUpdateMicros |-> now,
         roll_f  |-> CompFilter(g.rp_initialized, g.roll_f, imu.gx_deg, t,
                                imu.low_dynamic, imu.roll_acc),
         pitch_f |-> CompFilter(g.rp_initialized, g.pitch_f, imu.gy_deg, t,
                                imu.low_dynamic, imu.pitch_acc),
         rp_initialized |-> TRUE,
         gpsCourseValid |-> valid, spd_mph |-> mph, yaw_gps |-> course,
         yaw_gyro |-> yawG, yaw_initialized |-> yawIni,
         yaw_fused |-> FuseYaw(useGPS, yawG, course),
         yaw_mode |-> IF useGPS THEN 1 ELSE 0]

\* Lines 399-483 with the magnetometer heading, when there is one, taken
\* as the fused yaw.
Pass_MagFused(g, imu, now, fix, mag) ==
    LET f == FusionStage(g, imu, now, fix)
        m == MagStage(f.roll_f, f.pitch_f, mag)
    IN  [fusion |-> [f EXCEPT !.yaw_fused = IF m.magOK THEN m.yaw_mag ELSE @],
         mag |-> m]

\* Lines 399-483 on the globals g, after the IMU stage gave imu: what the
\* fusion computes, and what the magnetometer block (437-443) computes from
\* the roll and pitch just filtered.
Pass(g, imu, now, fix, mag) ==
    LET f == FusionStage(g, imu, now, fix)
    IN  [fusion |-> f, mag |-> MagStage(f.roll_f, f.pitch_f, mag)]

\* What no pass of loop() writes: the biases, the locals of the
\* calibration, and of the tach state the time of the last pulse.  The
\* passes taken in one step run with interrupts enabled, outside lines
\* 505-510, and no rpmISR runs in them.
loopFrame ==
    /\ UNCHANGED biasVars
    /\ UNCHANGED calVars
    /\ UNCHANGED << tach_lastPulseMicros, int_masked, tach_pc, isr_calls >>
    /\ UNCHANGED << wrapVars, lapVars >>

\* Lines 406-419 of a pass of loop(): the writes of the IMU stage.
loopImu(imu) ==
    /\ gx_deg' = imu.gx_deg /\ gy_deg' = imu.gy_deg /\ gz_deg' = imu.gz_deg
    /\ ax_lpf' = imu.ax_lpf /\ ay_lpf' = imu.ay_lpf /\ az_lpf' = imu.az_lpf
    /\ low_dynamic' = imu.low_dynamic
    /\ roll_acc' = imu.roll_acc /\ pitch_acc' = imu.pitch_acc

\* Lines 399-404 and 421-483 of a pass of loop(), on the inputs it reads.
\* The throttle ADC (485-494) writes none of the variables of this module.
loopFusion(imu, now, fix, mag) ==
    \E p \in {Pass(Globals, imu, now, fix, mag)} :
    \E f \in {p.fusion} :
         /\ magOK' = p.mag.magOK
         /\ yaw_mag' = p.mag.yaw_mag
         /\ mag_evaluated' = p.mag.mag_evaluated
         /\ nowMicros' = f.nowMicros
         /\ dt' = f.dt
         /\ lastUpdateMicros' = f.lastUpdateMicros
         /\ roll_f'  = f.roll_f
         /\ pitch_f' = f.pitch_f
         /\ rp_initialized' = f.rp_initialized
         /\ gpsCourseValid' = f.gpsCourseValid /\ spd_mph' = f.spd_mph
         /\ yaw_gps' = f.yaw_gps
         /\ yaw_gyro' = f.yaw_gyro
         /\ yaw_initialized' = f.yaw_initialized
         /\ yaw_fused' = f.yaw_fused
         /\ yaw_mode' = f.yaw_mode

\* The 25 Hz block (lines 496-572) of a pass of loop() with no tach
\* interrupt during it: when a print is due, the snapshot and reset of the
\* tach state (lines 502-510) and the print and the log row of the pulse
\* count.
loopTach(due) ==
    /\ pulses' = IF due THEN tach_pulseCount ELSE pulses
    /\ minDtUs' = IF due THEN tach_minDtUs ELSE minDtUs
    /\ tach_pulseCount' = IF due THEN 0 ELSE tach_pulseCount
    /\ tach_minDtUs' = IF due THEN Max32 ELSE tach_minDtUs
    /\ tach_reported' = IF due THEN tach_reported + tach_pulseCount
                               ELSE tach_reported

\* The Arduino core calls loop() only after setup() has returned.
SetupDone_Always == TRUE

SetupDone == pc = "loop"

\* One pass of loop(), lines 396-572, with no tach interrupt during it, on
\* a raw IMU sample of raws, with a print due or not as dues has it, and the
\* magnetometer answering as mags has it.  Each write is stated as soon as
\* the inputs it depends on are chosen.
loopFrom(raws, dues, mags) ==
    /\ SetupDone
    /\ loopFrame
    /\ UNCHANGED twin
    /\ iter' = iter + 1
    /\ \E due \in dues :
         /\ loopTach(due)
         /\ \E raw \in raws :
            \E imu \in {ImuStage(Globals, raw)} :
              /\ loopImu(imu)
              /\ \E now \in MicrosSamples, fix \in GpsFixes, mag \in mags :
                   loopFusion(imu, now, fix, mag)

\* A pass of loop() on any inputs, a print due in each and no magnetometer
\* on the bus.
loop == iter < MaxIter /\ loopFrom(RawSamples, {TRUE}, {MagNone})

Next == loop

Spec == Init /\ [][Next]_vars

-----------------------------------------------------------------------------
(* Startup calibration *)

\* Power-on: setup() is about to call autoCalibrateIMU(); its sums are 0
\* (lines 203-204) and nothing has been read.
CalInit ==
    /\ PowerOn
    /\ lastUpdateMicros = U32(0, 0)
    /\ pc = "setup"
    /\ cal_reads = 0
    /\ cal_sample = Raw(0, 0, 0, 0, 0, 0)
    /\ sum_ax = 0 /\ sum_ay = 0 /\ sum_az = 0
    /\ sum_gx = 0 /\ sum_gy = 0 /\ sum_gz = 0
    /\ cal_window = << >>
    /\ InitWrap
    /\ LidarUnpowered

\* One pass of the settle loop (lines 208-211) with the sums added to, which
\* the code does not do.
settleRead_Summing ==
    /\ pc = "setup"
    /\ cal_reads < SettleReads
    /\ \E raw \in CalRaws :
         /\ cal_sample' = raw
         /\ sum_ax' = sum_ax + raw.ax /\ sum_ay' = sum_ay + raw.ay
         /\ sum_az' = sum_az + raw.az
         /\ sum_gx' = sum_gx + raw.gx /\ sum_gy' = sum_gy + raw.gy
         /\ sum_gz' = sum_gz + raw.gz
    /\ cal_reads' = cal_reads + 1
    /\ UNCHANGED << pc, cal_window >>
    /\ UNCHANGED << biasVars, loopVars, tachVars, twin, wrapVars, lapVars >>

\* One pass of the settle loop (lines 208-211): a raw read, discarded.
settleRead ==
    /\ pc = "setup"
    /\ cal_reads < SettleReads
    /\ \E raw \in CalRaws : cal_sample' = raw
    /\ cal_reads' = cal_reads + 1
    /\ UNCHANGED << pc, sum_ax, sum_ay, sum_az, sum_gx, sum_gy, sum_gz, cal_window >>
    /\ UNCHANGED << biasVars, loopVars, tachVars, twin, wrapVars, lapVars >>

\* One pass of the averaging loop (lines 213-226): a raw read, added to the
\* sums.
sampleRead ==
    /\ pc = "setup"
    /\ cal_reads >= SettleReads
    /\ cal_reads < SettleReads + CalSamples
    /\ \E raw \in CalRaws :
         /\ cal_sample' = raw
         /\ sum_ax' = sum_ax + raw.ax /\ sum_ay' = sum_ay + raw.ay
         /\ sum_az' = sum_az + raw.az
         /\ sum_gx' = sum_gx + raw.gx /\ sum_gy' = sum_gy + raw.gy
         /\ sum_gz' = sum_gz + raw.gz
         /\ cal_window' = Append(cal_window, raw)
    /\ cal_reads' = cal_reads + 1
    /\ UNCHANGED pc
    /\ UNCHANGED << biasVars, loopVars, tachVars, twin, wrapVars, lapVars >>

\* sum / samples, rounded to the grid.
MeanOf(sum, n) == RoundDiv(sum, n)

\* az_bias (line 230) with the 1 g of gravity left in.
AzBias_NoGravity(sum, n) == MeanOf(sum, n)

\* az_bias (line 230): the mean less the 1 g of gravity on Z.
AzBias(sum, n) == MeanOf(sum, n) - 1000

\* The end of autoCalibrateIMU (lines 228-234) and the rest of setup(): the
\* biases are written, the accel low-pass filter is reset (line 379) and the
\* time stamp is taken (line 389); loop() runs from here on.
calibrate ==
    /\ pc = "setup"
    /\ cal_reads = SettleReads + CalSamples
    /\ ax_bias' = MeanOf(sum_ax, CalSamples)
    /\ ay_bias' = MeanOf(sum_ay, CalSamples)
    /\ az_bias' = AzBias(sum_az, CalSamples)
    /\ gx_bias' = MeanOf(sum_gx, CalSamples)
    /\ gy_bias' = MeanOf(sum_gy, CalSamples)
    /\ gz_bias' = MeanOf(sum_gz, CalSamples)
    /\ ax_lpf' = 0 /\ ay_lpf' = 0 /\ az_lpf' = 1000
    /\ lastUpdateMicros' = Micros_BeforeWrap
    /\ pc' = "loop"
    /\ UNCHANGED << rp_initialized, roll_f, pitch_f, yaw_gyro, yaw_fused,
                    yaw_initialized, nowMicros, dt, gx_deg, gy_deg, gz_deg,
                    low_dynamic, roll_acc, pitch_acc, gpsCourseValid, spd_mph,
                    yaw_gps, yaw_mode, magOK, yaw_mag, mag_evaluated, iter >>
    /\ UNCHANGED twin
    /\ UNCHANGED << cal_reads, cal_sample, sum_ax, sum_ay, sum_az, sum_gx,
                    sum_gy, sum_gz, cal_window >>
    /\ UNCHANGED tachVars
    /\ UNCHANGED << wrapVars, lapVars >>

\* The sum of one axis over a sequence of raw samples.
RECURSIVE SeqSum(_, _)
SeqSum(seq, axis) ==
    IF seq = << >> THEN 0 ELSE Head(seq)[axis] + SeqSum(Tail(seq), axis)

\* The arithmetic mean of one axis over a sequence of raw samples (0 of
\* none).
Mean(seq, axis) ==
    IF seq = << >> THEN 0 ELSE RoundDiv(SeqSum(seq, axis), Len(seq))

\* attachInterrupt (line 383) is in setup() after autoCalibrateIMU (line
\* 350): rpmISR can run once the calibration is over.
IsrAttached == pc = "loop"

\* rpmISR (lines 39-51), on a rising edge of the tach input at time now.
rpmISR ==
    /\ IsrAttached
    /\ ~int_masked
    /\ tach_pulseCount < MaxPulses
    /\ \E now \in MicrosSamples :
         LET d == Sub32(now, tach_lastPulseMicros)
         IN  /\ tach_minDtUs' =
                   IF tach_lastPulseMicros # U32(0, 0) /\ Less32(d, tach_minDtUs)
                   THEN d ELSE tach_minDtUs
             /\ tach_lastPulseMicros' = now
    /\ tach_pulseCount' = tach_pulseCount + 1
    /\ isr_calls' = isr_calls + 1
    /\ UNCHANGED << int_masked, tach_pc, pulses, minDtUs, tach_reported >>
    /\ UNCHANGED << biasVars, loopVars, calVars, twin, wrapVars, lapVars >>

\* The per-axis mean of the samples the averaging loop read, as a raw sample.
CalMean ==
    Raw(Mean(cal_window, "ax"), Mean(cal_window, "ay"), Mean(cal_window, "az"),
        Mean(cal_window, "gx"), Mean(cal_window, "gy"), Mean(cal_window, "gz"))

\* A pass of loop() after the calibration, the car still standing as it
\* stood: the sensor reads the mean of the calibration samples.  The pass
\* is one of the first after setup(), which has just set lastPrint (line
\* 390): no print is due in it (line 497).
calLoop == iter < MaxCalIter /\ loopFrom({CalMean}, {FALSE}, {MagNone})

CalNext == settleRead \/ sampleRead \/ calibrate \/ calLoop \/ rpmISR

CalSpec == CalInit /\ [][CalNext]_vars

\* The six biases, as a raw sample.
Biases == Raw(ax_bias, ay_bias, az_bias, gx_bias, gy_bias, gz_bias)

\* C15: after autoCalibrateIMU, ax_bias, ay_bias, gx_bias, gy_bias and
\* gz_bias are the arithmetic means of their axis over the samples averaged
\* and az_bias is the mean of az less 1 g; a sensor that read exactly
\* (0, 0, 1) g and (0, 0, 0) deg/s throughout leaves all six at zero.
C15_BiasesAreMeans ==
    pc = "loop" =>
        /\ Biases = [CalMean EXCEPT !.az = @ - 1000]
        /\ (\A i \in 1 .. Len(cal_window) : cal_window[i] = Still)
              => Biases = Raw(0, 0, 0, 0, 0, 0)

\* A calibration finished on differing samples whose mean is off the ideal
\* one on every axis.
C15_Witness ==
    /\ pc = "loop" /\ iter = 0 /\ Len(cal_window) = CalSamples
    /\ cal_window[1] # cal_window[2]
    /\ ax_bias # 0 /\ ay_bias # 0 /\ az_bias # 0
    /\ gx_bias # 0 /\ gy_bias # 0 /\ gz_bias # 0

\* C16: after calibration, readMPU of a raw sample equal to the per-axis
\* mean of the calibration samples is (0, 0, 1 g, 0, 0, 0), whatever the
\* mean.
C16_MeanReadsLevel ==
    pc = "loop" => readMPU(CalMean) = Still

\* A pass of loop() has read the calibration mean, which is off the ideal
\* sample on every axis, and got zero rates and 1 g on Z from readMPU.
C16_Witness ==
    /\ pc = "loop" /\ iter = 1
    /\ CalMean.ax # 0 /\ CalMean.ay # 0 /\ CalMean.az # 1000
    /\ CalMean.gx # 0 /\ CalMean.gy # 0 /\ CalMean.gz # 0
    /\ gx_deg = 0 /\ gy_deg = 0 /\ gz_deg = 0
    /\ ax_lpf = 0 /\ ay_lpf = 0 /\ az_lpf = 1000

\* The sums autoCalibrateIMU holds are those of the samples in seq.
SumsAre(seq) ==
    /\ sum_ax = SeqSum(seq, "ax") /\ sum_ay = SeqSum(seq, "ay")
    /\ sum_az = SeqSum(seq, "az")
    /\ sum_gx = SeqSum(seq, "gx") /\ sum_gy = SeqSum(seq, "gy")
    /\ sum_gz = SeqSum(seq, "gz")

\* C17: autoCalibrateIMU(N) makes exactly 50 + N raw reads.  None of the
\* first 50 changes a sum or a bias: after them the sums are still 0.  The
\* sums hold the samples read after the 50th and no other, N of them when
\* the biases are computed.
C17_SettleThenAverage ==
    /\ [](/\ cal_reads <= 50 + CalSamples
          /\ cal_reads <= 50 => cal_window = << >>
          /\ cal_reads >= 50 => Len(cal_window) = cal_reads - 50
          /\ SumsAre(cal_window)
          /\ pc = "loop" => cal_reads = 50 + CalSamples)
    /\ [][cal_reads < 50 => UNCHANGED << biasVars, sum_ax, sum_ay, sum_az,
                                         sum_gx, sum_gy, sum_gz >>]_vars

\* A calibration finished after 50 + N reads, the last sample read being the
\* last one averaged, and off the ideal one.
C17_Witness ==
    /\ pc = "loop" /\ cal_reads = 50 + CalSamples
    /\ Len(cal_window) = CalSamples
    /\ cal_sample = cal_window[CalSamples] /\ cal_sample # Still
    /\ sum_az # CalSamples * 1000

\* C18: the six biases change only in the step that ends the one startup
\* calibration, before any pass of loop(); setup() is over for good when
\* loop() first runs, and no pass of loop() and no run of rpmISR changes a
\* bias.
C18_BiasesWrittenOnce ==
    /\ [][biasVars' # biasVars => (pc = "setup" /\ pc' = "loop" /\ iter = 0)]_vars
    /\ [](iter > 0 => pc = "loop")
    /\ [][pc = "loop" => (pc' = "loop" /\ UNCHANGED biasVars)]_vars

\* After a calibration that left all six biases off zero, a pass of loop()
\* and two tach interrupts have run.
C18_Witness ==
    /\ pc = "loop" /\ iter = 1 /\ tach_pulseCount = 2
    /\ tach_minDtUs # Max32
    /\ ax_bias # 0 /\ ay_bias # 0 /\ az_bias # 0
    /\ gx_bias # 0 /\ gy_bias # 0 /\ gz_bias # 0

-----------------------------------------------------------------------------
(* The tach snapshot, statement by statement, against rpmISR *)

\* The GPS fix of the passes explored here.
TachFix == Fix(TRUE, TRUE, 12, Deg32(100))

\* A pass of loop() in which a print is due, from its start to
\* noInterrupts() (lines 396-505), on a level sample at rest; mask tells
\* whether noInterrupts() masks the interrupts.
tachEnterWith(mask) ==
    /\ SetupDone
    /\ tach_pc = "out"
    /\ iter < MaxSnaps
    /\ \E imu \in {ImuStage(Globals, Still)} :
         /\ loopImu(imu)
         /\ loopFusion(imu, Micros_100ms, TachFix, MagNone)
    /\ int_masked' = mask
    /\ tach_pc' = "pulses"
    /\ UNCHANGED << tach_pulseCount, tach_lastPulseMicros, tach_minDtUs, pulses,
                    minDtUs, isr_calls, tach_reported, iter >>
    /\ UNCHANGED << biasVars, calVars, twin, wrapVars, lapVars >>

\* The same with interrupts left enabled.
tachEnter_Unmasked == tachEnterWith(FALSE)

tachEnter == tachEnterWith(TRUE)

\* What the statements of lines 506-509 leave alone.
TachStepFrame ==
    UNCHANGED << biasVars, loopVars, calVars, twin, wrapVars, lapVars, int_masked,
                 tach_lastPulseMicros, isr_calls, tach_reported >>

\* Line 506: pulses = tach_pulseCount.
tachReadPulses ==
    /\ tach_pc = "pulses"
    /\ pulses' = tach_pulseCount
    /\ tach_pc' = "minDtUs"
    /\ UNCHANGED << minDtUs, tach_pulseCount, tach_minDtUs >>
    /\ TachStepFrame

\* Line 507: minDtUs = tach_minDtUs.
tachReadMin ==
    /\ tach_pc = "minDtUs"
    /\ minDtUs' = tach_minDtUs
    /\ tach_pc' = "resetCount"
    /\ UNCHANGED << pulses, tach_pulseCount, tach_minDtUs >>
    /\ TachStepFrame

\* Line 508: tach_pulseCount = 0.
tachResetCount ==
    /\ tach_pc = "resetCount"
    /\ tach_pulseCount' = 0
    /\ tach_pc' = "resetMin"
    /\ UNCHANGED << pulses, minDtUs, tach_minDtUs >>
    /\ TachStepFrame

\* Line 509 left out: the minimum of the window before stays.
tachResetMin_Kept ==
    /\ tach_pc = "resetMin"
    /\ tach_pc' = "interrupts"
    /\ UNCHANGED << pulses, minDtUs, tach_pulseCount, tach_minDtUs >>
    /\ TachStepFrame

\* Line 509: tach_minDtUs = 0xFFFFFFFF.
tachResetMin ==
    /\ tach_pc = "resetMin"
    /\ tach_minDtUs' = Max32
    /\ tach_pc' = "interrupts"
    /\ UNCHANGED << pulses, minDtUs, tach_pulseCount >>
    /\ TachStepFrame

\* Line 510, interrupts(), and the rest of the pass: the snapshot is printed
\* (line 530) and logged (line 559).
tachLeave ==
    /\ tach_pc = "interrupts"
    /\ int_masked' = FALSE
    /\ tach_reported' = tach_reported + pulses
    /\ tach_pc' = "out"
    /\ iter' = iter + 1
    /\ UNCHANGED << lastUpdateMicros, rp_initialized, roll_f, pitch_f, yaw_gyro,
                    yaw_fused, yaw_initialized, ax_lpf, ay_lpf, az_lpf, nowMicros,
                    dt, gx_deg, gy_deg, gz_deg, low_dynamic, roll_acc, pitch_acc,
                    gpsCourseValid, spd_mph, yaw_gps, yaw_mode, magOK, yaw_mag,
                    mag_evaluated >>
    /\ UNCHANGED << tach_pulseCount, tach_lastPulseMicros, tach_minDtUs, pulses,
                    minDtUs, isr_calls >>
    /\ UNCHANGED << biasVars, calVars, twin, wrapVars, lapVars >>

TachNext ==
    \/ tachEnter \/ tachReadPulses \/ tachReadMin \/ tachResetCount
    \/ tachResetMin \/ tachLeave \/ rpmISR

TachSpec == Init /\ [][TachNext]_vars

\* The pulse count snapshotted and reset but not yet printed.
InFlight == IF tach_pc \in {"resetMin", "interrupts"} THEN pulses ELSE 0

-----------------------------------------------------------------------------
(* The magnetometer: two sketches side by side *)

\* The inputs the two sketches share: IMU samples with and without tilt and
\* turn, two times, and two GPS fixes fast enough to align and to correct.
MagRaws ==
    { Still,
      Raw(100, 0, 1000, 5000, -5000, 10000),
      Raw(0, -150, 1000, 0, 0, -8) }

MagMicros == { Micros_AfterWrap, Micros_100ms }

MagFixes == { Fix(TRUE, TRUE, 12, Deg32(100)), Fix(TRUE, TRUE, 40, Deg32(250)) }

\* One pass of loop() of the second sketch, on its state tw.
TwinStep(tw, imu, now, fix, mag) ==
    LET p == Pass(tw, imu, now, fix, mag)
        f == p.fusion
    IN  [lastUpdateMicros |-> f.lastUpdateMicros,
         rp_initialized |-> f.rp_initialized,
         roll_f |-> f.roll_f, pitch_f |-> f.pitch_f,
         yaw_gyro |-> f.yaw_gyro, yaw_fused |-> f.yaw_fused,
         yaw_initialized |-> f.yaw_initialized,
         ax_lpf |-> imu.ax_lpf, ay_lpf |-> imu.ay_lpf, az_lpf |-> imu.az_lpf,
         yaw_mode |-> f.yaw_mode,
         magOK |-> p.mag.magOK, yaw_mag |-> p.mag.yaw_mag]

\* A pass of loop() in each of the two sketches, on the same IMU sample, time
\* and GPS fix, each with a magnetometer reading, or none, of its own.
loopBoth ==
    /\ SetupDone
    /\ iter < MaxMagIter
    /\ loopFrame
    /\ iter' = iter + 1
    /\ loopTach(TRUE)
    /\ \E raw \in MagRaws :
       \E imu \in {ImuStage(Globals, raw)}, imu2 \in {ImuStage(twin, raw)} :
         /\ loopImu(imu)
         /\ \E now \in MagMicros, fix \in MagFixes, mag \in MagReadings,
               mag2 \in MagReadings :
              /\ loopFusion(imu, now, fix, mag)
              /\ twin' = TwinStep(twin, imu2, now, fix, mag2)

MagNext == loopBoth

MagSpec == Init /\ [][MagNext]_vars

\* The filter outputs of this sketch and of the second one are the same.
SameFilterState ==
    /\ roll_f = twin.roll_f /\ pitch_f = twin.pitch_f
    /\ yaw_gyro = twin.yaw_gyro /\ yaw_fused = twin.yaw_fused
    /\ yaw_mode = twin.yaw_mode /\ yaw_initialized = twin.yaw_initialized

\* C19: two runs of loop() on the same IMU samples, times and GPS fixes,
\* whose magnetometer readings or read failures differ, have the same
\* roll_f, pitch_f, yaw_gyro, yaw_fused, yaw_mode and yaw_initialized after
\* every pass.
C19_MagDiagnosticOnly == SameFilterState

\* After two passes, tilted and with the GPS correction on, one sketch has
\* a magnetometer heading and the other a failed read.
C19_Witness ==
    /\ iter = 2 /\ yaw_mode = 1 /\ roll_f # 0 /\ pitch_f # 0
    /\ magOK /\ ~twin.magOK
    /\ yaw_mag # twin.yaw_mag

\* C20: in a pass of loop() where readMag fails, computeMagYawDeg is not
\* called, yaw_mag is the previous value or the default 0, and the filter
\* state after the pass is that of the second sketch, whose read may have
\* succeeded.
C20_MagFailure ==
    [][(iter' = iter + 1 /\ ~magOK') =>
           /\ ~mag_evaluated'
           /\ yaw_mag' \in {yaw_mag, 0}
           /\ SameFilterState']_vars

\* A pass where the read failed, after one where it gave a heading other
\* than 0; the second sketch's read succeeded.
C20_Witness ==
    /\ iter = 2 /\ ~magOK /\ ~mag_evaluated /\ yaw_mag = 0
    /\ twin.magOK /\ twin.yaw_mag # 0

-----------------------------------------------------------------------------
(* The angle helpers called on their own *)

\* Arguments: every multiple of 45 degrees within MaxTurns turns, and next
\* to each of them the values 2^-17, 2^-15 and 2^-14 degree away, all
\* rounded to binary32.
WrapInputs ==
    { F32(Deg32(45) * k + e) : k \in (-8 * MaxTurns) .. (8 * MaxTurns),
                               e \in {-64, -32, -8, 0, 8, 32, 64} }

WrapInit ==
    /\ InitSketch
    /\ wrap_a \in WrapInputs
    /\ wrap_r360 = 0 /\ wrap_r180 = 0 /\ wrap_done = FALSE
    /\ LidarUnpowered

\* One call of each helper on the argument.
wrapCall ==
    /\ ~wrap_done
    /\ wrap_r360' = wrapAngle360(wrap_a)
    /\ wrap_r180' = wrapAngle180(wrap_a)
    /\ wrap_done' = TRUE
    /\ UNCHANGED wrap_a
    /\ UNCHANGED sketchVars
    /\ UNCHANGED lapVars

WrapNext == wrapCall

WrapSpec == WrapInit /\ [][WrapNext]_vars

\* C11: wrapAngle360(a) returns, for every a, a result in [0, 360) that
\* differs from a by a multiple of 360 (up to the rounding of the result,
\* half a unit in the last place below 360: 2^-16 degree, 16 on the grid),
\* and wrapping the result again leaves it as it is.
C11_Wrap360 ==
    wrap_done =>
        /\ 0 <= wrap_r360 /\ wrap_r360 < Deg32(360)
        /\ LET off == (wrap_r360 - wrap_a) % Deg32(360)
           IN  off <= 16 \/ off >= Deg32(360) - 16
        /\ wrapAngle360(wrap_r360) = wrap_r360

\* C12: the result of wrapAngle180(a) is in [-180, 180) for every a, odd
\* multiples of 180 included.
C12_Wrap180 ==
    wrap_done => (-Deg32(180) <= wrap_r180 /\ wrap_r180 < Deg32(180))

-----------------------------------------------------------------------------
(* Heading fusion *)

\* The four gates of the GPS correction, on the values of the last pass.
GatesHold ==
    /\ gpsCourseValid
    /\ spd_mph > GPS_SPEED_MIN_MPH
    /\ Abs(ay_lpf) < GPS_LAT_ACC_THRESH_G
    /\ Abs(gz_deg) < GPS_YAWRATE_THRESH_DPS

\* The pass just taken integrated yaw_gyro from its previous value.
YawIntegrated == yaw_gyro' = wrapAngle360(F32(yaw_gyro + YawStep(gz_deg', dt')))

\* C1: after every pass of loop(), yaw_mode is 1 exactly when yaw is
\* initialized and the four gates hold on that pass's values (course valid,
\* speed above GPS_SPEED_MIN_MPH, |ay_lpf| and |gz| below their thresholds);
\* the mode of the pass before plays no part.
C1_ModeIffGates ==
    iter > 0 => ((yaw_mode = 1) <=> (yaw_initialized /\ GatesHold))

\* A pass in corrected mode at the lowest speed of the inputs above the gate.
C1_Witness ==
    iter > 0 /\ yaw_mode = 1 /\ yaw_initialized /\ GatesHold /\ spd_mph = 13

\* C2: a pass that ends in corrected mode leaves
\* yaw_fused = wrap360(yaw_gyro + GPS_CORR_GAIN * wrap180(yaw_gps - yaw_gyro))
\* on the yaw_gyro integrated in that pass; yaw_gyro = 100 and yaw_gps = 110
\* give 101.5 degrees.
C2_CorrectedYaw ==
    (iter > 0 /\ yaw_mode = 1) =>
        /\ yaw_fused = wrapAngle360(F32(yaw_gyro
                          + CorrGain(wrapAngle180(F32(yaw_gps - yaw_gyro)))))
        /\ (yaw_gyro = Deg32(100) /\ yaw_gps = Deg32(110)) =>
               yaw_fused = Deg32(101) + Deg32(1) \div 2

\* The worked example: yaw_gyro = 100, yaw_gps = 110, corrected mode.
C2_Witness ==
    /\ yaw_mode = 1 /\ yaw_gyro = Deg32(100) /\ yaw_gps = Deg32(110)
    /\ yaw_fused = Deg32(101) + Deg32(1) \div 2

\* C3: a pass in which a gate fails or yaw is not initialized ends with
\* yaw_fused equal to yaw_gyro and yaw_mode 0.
C3_GateRejection ==
    (iter > 0 /\ ~(yaw_initialized /\ GatesHold)) =>
        (yaw_fused = yaw_gyro /\ yaw_mode = 0)

\* Initialized, a valid course away from yaw_gyro, every gate but the speed
\* gate passing: the course is ignored.
C3_Witness ==
    /\ iter > 0 /\ yaw_initialized /\ gpsCourseValid /\ spd_mph = 12
    /\ Abs(ay_lpf) < GPS_LAT_ACC_THRESH_G /\ Abs(gz_deg) < GPS_YAWRATE_THRESH_DPS
    /\ yaw_gps # yaw_gyro /\ yaw_fused = yaw_gyro /\ yaw_mode = 0

\* C4: a pass entered with yaw not initialized that sees a valid course and a
\* speed above GPS_SPEED_INIT_MPH initializes yaw and ends with yaw_gyro and
\* yaw_fused both equal to the GPS course, whatever yaw_gyro was and whether
\* or not the correction gates pass.
C4_InitSnap ==
    [][ (~yaw_initialized /\ gpsCourseValid' /\ spd_mph' > GPS_SPEED_INIT_MPH) =>
            (yaw_initialized' /\ yaw_gyro' = yaw_gps' /\ yaw_fused' = yaw_gps') ]_vars

\* The first pass snaps to the course while the gyro turns and the gates pass.
C4_Witness ==
    /\ iter = 1 /\ yaw_initialized /\ gz_deg # 0 /\ yaw_mode = 1
    /\ yaw_gps = Deg32(110) /\ yaw_gyro = yaw_gps /\ yaw_fused = yaw_gps

\* C5: once yaw_initialized is true it stays true, and a pass entered with it
\* true does not snap: its yaw_gyro is the integrated one.
C5_InitOnce ==
    [][ yaw_initialized => (yaw_initialized' /\ YawIntegrated) ]_vars

\* A later pass that meets the alignment condition again and keeps its own
\* yaw_gyro.
C5_Witness ==
    /\ iter >= 2 /\ yaw_initialized /\ gpsCourseValid
    /\ spd_mph > GPS_SPEED_INIT_MPH /\ yaw_gyro # yaw_gps

\* C6: every pass other than the one that initializes yaw leaves
\* yaw_gyro = wrap360(previous yaw_gyro + gz * dt), whatever the GPS fix and
\* the gates; the corrected yaw_fused is not carried into yaw_gyro.
C6_PureIntegration ==
    [][ ~(~yaw_initialized /\ yaw_initialized') => YawIntegrated ]_vars

\* A corrected pass: yaw_fused differs from yaw_gyro, which the next pass
\* integrates.
C6_Witness ==
    /\ iter = 2 /\ yaw_mode = 1 /\ yaw_fused # yaw_gyro /\ gz_deg # 0

\* The filtered acceleration and the rates after a pass are those of one
\* application of the low-pass filter to one raw sample.
FilteredOnce ==
    \E raw \in RawSamples :
        LET s == readMPU(raw)
        IN  /\ gx_deg' = s.gx /\ gy_deg' = s.gy /\ gz_deg' = s.gz
            /\ ax_lpf' = LowPass(s.ax, ax_lpf)
            /\ ay_lpf' = LowPass(s.ay, ay_lpf)
            /\ az_lpf' = LowPass(s.az, az_lpf)

\* C22: every pass of loop() runs the low-pass filter, the tilt, the blend,
\* the yaw integration and the GPS gating once each and in this order, each
\* on what the stage before it left in the same pass: the tilt and the
\* low-dynamic flag are those of the filtered acceleration of this pass, the
\* blend takes one step from the roll and pitch of the pass before with this
\* pass's rates, flag and tilt, yaw_gyro takes one integration step (or the
\* GPS course, on alignment), and the gating and the correction are on this
\* pass's ay_lpf, gz and yaw_gyro.
C22_StageOrder ==
    /\ [](iter > 0 =>
            /\ low_dynamic = LowDynamic(ax_lpf, ay_lpf, az_lpf)
            /\ roll_acc = getAccelRP(ax_lpf, ay_lpf, az_lpf).roll
            /\ pitch_acc = getAccelRP(ax_lpf, ay_lpf, az_lpf).pitch
            /\ (yaw_mode = 1) = UseGPS(yaw_initialized, gpsCourseValid, spd_mph,
                                       ay_lpf, gz_deg)
            /\ yaw_fused = FuseYaw(yaw_mode = 1, yaw_gyro, yaw_gps))
    /\ [][iter' = iter + 1 =>
            /\ FilteredOnce
            /\ roll_f' = CompFilter(rp_initialized, roll_f, gx_deg', dt',
                                    low_dynamic', roll_acc')
            /\ pitch_f' = CompFilter(rp_initialized, pitch_f, gy_deg', dt',
                                     low_dynamic', pitch_acc')
            /\ yaw_gyro' = IF ~yaw_initialized /\ yaw_initialized' THEN yaw_gps'
                           ELSE IntegrateYaw(yaw_gyro, gz_deg', dt')]_vars

\* A third pass in which every stage had something to do: the filtered
\* acceleration moved, into high dynamics, the roll was integrated from the
\* gyro alone, and the yaw was integrated and then corrected.
C22_Witness ==
    /\ iter = 3 /\ ~low_dynamic /\ yaw_mode = 1
    /\ ax_lpf # 0 /\ az_lpf # 1000 /\ roll_f # roll_acc
    /\ gz_deg # 0 /\ yaw_fused # yaw_gyro

\* C13: after every pass of loop(), yaw_gyro, yaw_fused and yaw_gps are in
\* [0, 360), whatever the gyro rates, the time steps and the GPS courses.
C13_YawInRange ==
    iter > 0 =>
        /\ 0 <= yaw_gyro /\ yaw_gyro < Deg32(360)
        /\ 0 <= yaw_fused /\ yaw_fused < Deg32(360)
        /\ 0 <= yaw_gps /\ yaw_gps < Deg32(360)

\* The shortest arc from yaw b to yaw a, in [-180, 180].
Arc(a, b) == wrapAngle180(F32(a - b))

\* C14: in a corrected pass yaw_fused lies within GPS_CORR_GAIN * 180 = 27
\* degrees of yaw_gyro, on the side of the shortest arc to yaw_gps, no
\* farther from yaw_gps than yaw_gyro is; a course more than a degree away
\* is not reached.
C14_BoundedNudge ==
    (iter > 0 /\ yaw_mode = 1) =>
        /\ Abs(Arc(yaw_fused, yaw_gyro)) <= Deg32(27)
        /\ Arc(yaw_gps, yaw_gyro) >= 0 => Arc(yaw_fused, yaw_gyro) >= 0
        /\ Arc(yaw_gps, yaw_gyro) <= 0 => Arc(yaw_fused, yaw_gyro) <= 0
        /\ Abs(Arc(yaw_gps, yaw_fused)) <= Abs(Arc(yaw_gps, yaw_gyro))
        /\ Abs(Arc(yaw_gps, yaw_gyro)) > Deg32(1) => yaw_fused # yaw_gps

\* A corrected pass whose course is more than 100 degrees from yaw_gyro.
C14_Witness ==
    /\ iter > 0 /\ yaw_mode = 1
    /\ Abs(Arc(yaw_gps, yaw_gyro)) > Deg32(100)
    /\ yaw_fused # yaw_gyro /\ yaw_fused # yaw_gps

-----------------------------------------------------------------------------
(* Time step *)

\* The time elapsed between the previous pass and the pass just taken.
Elapsed == Sub32(nowMicros', lastUpdateMicros)

\* C7: the dt of every pass is in (0, 0.1 s]: an elapsed time of 0 or above
\* 0.1 s gives exactly 0.01 s (so do 5.0 s), an elapsed time in (0, 0.1 s] is
\* used as it is, and lastUpdateMicros becomes the time read in the pass in
\* both cases.
C7_DtClamp ==
    [][ /\ dt' > 0 /\ dt' <= 100000
        /\ (ElapsedZero(Elapsed) \/ ElapsedOver100ms(Elapsed)) => dt' = 10000
        /\ Elapsed = U32(76, 19264) => dt' = 10000
        /\ ~(ElapsedZero(Elapsed) \/ ElapsedOver100ms(Elapsed)) =>
               dt' = Elapsed.hi * 65536 + Elapsed.lo
        /\ lastUpdateMicros' = nowMicros' ]_vars

\* The first pass runs 5.001 s after setup(): yaw is integrated over 0.01 s.
C7_Witness ==
    /\ iter = 1 /\ nowMicros = Micros_5s /\ lastUpdateMicros = Micros_5s
    /\ dt = 10000 /\ gz_deg = 10000 /\ ~yaw_initialized
    /\ yaw_gyro = YawStep(10000, 10000)

-----------------------------------------------------------------------------
(* Roll and pitch *)

\* The filtered acceleration of the pass just taken is at least 0.15 g away
\* from 1 g in magnitude.
HighDynamicNext ==
    LET n2 == ax_lpf' * ax_lpf' + ay_lpf' * ay_lpf' + az_lpf' * az_lpf'
    IN  n2 <= 850 * 850 \/ n2 >= 1150 * 1150

\* C8: in the running state, a pass whose filtered acceleration is 0.15 g or
\* more away from 1 g leaves roll_f = previous roll_f + gx * dt and
\* pitch_f = previous pitch_f + gy * dt.
C8_HighDynamicBypass ==
    [][ (rp_initialized /\ HighDynamicNext) =>
            /\ ~low_dynamic'
            /\ roll_f' = roll_f + GyroStep(gx_deg', dt')
            /\ pitch_f' = pitch_f + GyroStep(gy_deg', dt') ]_vars

\* A running pass in high dynamics with rates on both axes and
\* accelerometer angles that differ from the result.
C8_Witness ==
    /\ iter >= 2 /\ ~low_dynamic /\ gx_deg # 0 /\ gy_deg # 0
    /\ roll_f # roll_acc /\ pitch_f # pitch_acc

\* C9: the first pass leaves roll_f at the accelerometer roll, and a later
\* pass with gx = 0 whose accelerometer roll equals roll_f leaves roll_f
\* unchanged, in the blend branch and in the high-dynamic branch.
C9_FixedPoint ==
    [][ /\ ~rp_initialized => roll_f' = roll_acc'
        /\ (rp_initialized /\ gx_deg' = 0 /\ roll_acc' = roll_f) =>
               roll_f' = roll_f ]_vars

\* A held lean: a running pass in low dynamics with gx = 0 and roll_f at the
\* accelerometer roll, which is not zero.
C9_Witness ==
    /\ iter >= 2 /\ low_dynamic /\ gx_deg = 0 /\ roll_acc = roll_f
    /\ roll_f < -Deg(8) /\ ay_lpf = -150

\* C10: roll_acc and pitch_acc are the tilt of the filtered acceleration; the
\* first pass sets roll_f and pitch_f to them, whatever the gyro rates, and
\* sets rp_initialized; rp_initialized stays true and every later pass takes
\* the running update.
C10_TwoStates ==
    /\ [](\E tilt \in {getAccelRP(ax_lpf, ay_lpf, az_lpf)} :
              roll_acc = tilt.roll /\ pitch_acc = tilt.pitch)
    /\ [][ /\ rp_initialized'
           /\ ~rp_initialized => (roll_f' = roll_acc' /\ pitch_f' = pitch_acc')
           /\ rp_initialized =>
                LET roll_gyro  == roll_f + GyroStep(gx_deg', dt')
                    pitch_gyro == pitch_f + GyroStep(gy_deg', dt')
                IN  /\ roll_f' = IF low_dynamic'
                                 THEN RoundDiv(98 * roll_gyro + 2 * roll_acc', 100)
                                 ELSE roll_gyro
                    /\ pitch_f' = IF low_dynamic'
                                  THEN RoundDiv(98 * pitch_gyro + 2 * pitch_acc', 100)
                                  ELSE pitch_gyro ]_vars

\* The first pass with gyro rates on both axes and a pitched filtered
\* acceleration.
C10_Witness ==
    /\ iter = 1 /\ rp_initialized /\ gx_deg # 0 /\ gy_deg # 0
    /\ pitch_acc # 0 /\ roll_f = roll_acc /\ pitch_f = pitch_acc

-----------------------------------------------------------------------------
(* The lap timer (Lidar.ino): functions, loop() and the HTTP handlers *)

\* Samples taken and requests served in a run of the lap timer.
MaxLapSamples == 5
MaxRequests == 3

\* readDistance (lines 263-272): of the globals it writes cal_cnt, which
\* chooses between a measurement with and without bias correction; the
\* distance it returns is an input.
readDistance(g) == [g EXCEPT !.cal_cnt = (g.cal_cnt + 1) % 100]

\* String(index) for an index of one or two digits (line 276).
DigitChars == << "0", "1", "2", "3", "4", "5", "6", "7", "8", "9" >>
IndexString(index) ==
    IF index < 10 THEN DigitChars[index + 1]
    ELSE DigitChars[(index \div 10) + 1] \o DigitChars[(index % 10) + 1]

\* makeFilename (lines 275-279).
makeFilename(prefix, index) ==
    LET idxStr == IF index < 10 THEN "0" \o IndexString(index)
                  ELSE IndexString(index)
    IN  "/" \o prefix \o "_" \o idxStr \o ".csv"

\* openNewCsv without lines 303-304: the name of the file that did not open
\* stays current.
openNewCsv_NameKept(g, prefix, index, opens) ==
    IF ~g.sdOk THEN g
    ELSE IF opens
         THEN [g EXCEPT !.currentPrefix = prefix,
                        !.currentFilename = makeFilename(prefix, index),
                        !.logFile = TRUE,
                        !.lapCounter = 0,
                        !.lapHistoryCount = 0]
         ELSE [g EXCEPT !.logFile = FALSE,
                        !.currentPrefix = prefix,
                        !.currentFilename = makeFilename(prefix, index)]

\* openNewCsv (lines 282-306); opens is whether SD.open() succeeds.
openNewCsv(g, prefix, index, opens) ==
    IF ~g.sdOk THEN g
    ELSE IF opens
         THEN [g EXCEPT !.currentPrefix = prefix,
                        !.currentFilename = makeFilename(prefix, index),
                        !.logFile = TRUE,
                        !.lapCounter = 0,
                        !.lapHistoryCount = 0]
         ELSE [g EXCEPT !.logFile = FALSE,
                        !.currentFilename = "",
                        !.currentPrefix = ""]

\* startNewCsvMidget47 and startNewCsvMidget47x (lines 309-319).
startNewCsvMidget47(g, opens) ==
    IF ~g.sdOk THEN g
    ELSE openNewCsv([g EXCEPT !.midget47Index = g.midget47Index + 1],
                    "midget47", g.midget47Index + 1, opens)

startNewCsvMidget47x(g, opens) ==
    IF ~g.sdOk THEN g
    ELSE openNewCsv([g EXCEPT !.midget47xIndex = g.midget47xIndex + 1],
                    "midget47x", g.midget47xIndex + 1, opens)

\* clearSdCard (lines 322-354): the globals after it and what it returns;
\* opens is whether SD.open("/") succeeds.
clearSdCard(g, opens) ==
    IF ~g.sdOk THEN [g |-> g, ok |-> FALSE]
    ELSE IF ~opens THEN [g |-> [g EXCEPT !.logFile = FALSE], ok |-> FALSE]
    ELSE [g |-> [g EXCEPT !.logFile = FALSE,
                          !.currentFilename = "",
                          !.currentPrefix = "",
                          !.lapCounter = 0,
                          !.lapHistoryCount = 0,
                          !.midget47Index = 0,
                          !.midget47xIndex = 0],
          ok |-> TRUE]

\* No shift: the array as it was.
ShiftLeft_Kept(arr, i) == arr

\* The shift loop of addLapToHistory (lines 364-367) from index i on, on one
\* of the two arrays.
RECURSIVE ShiftLeft(_, _)
ShiftLeft(arr, i) ==
    IF i < MAX_LAPS_IN_MEMORY
    THEN ShiftLeft([arr EXCEPT ![i - 1] = arr[i]], i + 1)
    ELSE arr

\* addLapToHistory (lines 357-371): the globals after it, and the array
\* indexes it writes.
addLapToHistory(g, lapNum, lapMs) ==
    IF g.lapHistoryCount < MAX_LAPS_IN_MEMORY
    THEN [g |-> [g EXCEPT !.lapNumbers[g.lapHistoryCount] = lapNum,
                          !.lapTimesMsArr[g.lapHistoryCount] = lapMs,
                          !.lapHistoryCount = g.lapHistoryCount + 1],
          writes |-> {g.lapHistoryCount}]
    ELSE [g |-> [g EXCEPT
                   !.lapNumbers =
                       [ShiftLeft(g.lapNumbers, 1)
                           EXCEPT ![MAX_LAPS_IN_MEMORY - 1] = lapNum],
                   !.lapTimesMsArr =
                       [ShiftLeft(g.lapTimesMsArr, 1)
                           EXCEPT ![MAX_LAPS_IN_MEMORY - 1] = lapMs]],
          writes |-> {i - 1 : i \in 1 .. (MAX_LAPS_IN_MEMORY - 1)}
                        \cup {MAX_LAPS_IN_MEMORY - 1}]

\* logLap without the return of line 375.
logLap_Unguarded(g, lapMs) ==
    LET counted == [g EXCEPT !.lapCounter = g.lapCounter + 1]
    IN  addLapToHistory(counted, counted.lapCounter, lapMs)

\* logLap (lines 374-398): the globals after it, and the array indexes
\* written.  The row appended to the CSV file is not kept.
logLap(g, lapMs) ==
    IF ~g.sdOk \/ ~g.logFile THEN [g |-> g, writes |-> {}]
    ELSE LET counted == [g EXCEPT !.lapCounter = g.lapCounter + 1]
         IN  addLapToHistory(counted, counted.lapCounter, lapMs)

\* The guard of updateLapLogic on refSet alone.
LapLogicOff_ArmUnchecked(g) == ~g.refSet

\* Line 403 of updateLapLogic: whether it returns at once.
LapLogicOff(g) == ~g.refSet \/ ~g.armed

\* Line 410 of updateLapLogic: a rising edge of object presence.
RisingEdge(g) == ~g.lastObjectPresent /\ g.objectPresent

\* The first crossing taken for the end of a lap that began at lapStartMs.
firstCrossing_Timed(g, now) ==
    [g EXCEPT !.hasStarted = TRUE, !.lapRunning = TRUE,
              !.lastLapMs = now - g.lapStartMs, !.lapStartMs = now]

\* Lines 411-416 of updateLapLogic: the first crossing after Go.
firstCrossing(g, now) ==
    [g EXCEPT !.hasStarted = TRUE, !.lapRunning = TRUE, !.lapStartMs = now]

\* No lap taken for spurious.
SpuriousLap_Never(lapMs) == FALSE

\* Line 422 of updateLapLogic: whether a lap is ignored as spurious.
SpuriousLap(lapMs) == lapMs < MIN_LAP_TIME_MS

\* An ignored crossing that starts the lap anew.
ignoredCrossing_Restart(g, now) == [g EXCEPT !.lapStartMs = now]

\* Lines 423-427 of updateLapLogic: an ignored crossing writes no global.
ignoredCrossing(g, now) == g

\* updateLapLogic (lines 402-442): the globals after it, the branch taken
\* ("off": the return of line 403; "idle": no rising edge; "start": lines
\* 411-416; "short": lines 422-428; "lap": lines 430-439), the lap times
\* passed to logLap and the array indexes written.
updateLapLogic(g, dist, now) ==
    IF LapLogicOff(g)
    THEN [g |-> g, event |-> "off", logged |-> << >>, writes |-> {}]
    ELSE
    LET seen == [g EXCEPT
                   !.lastObjectPresent = g.objectPresent,
                   !.objectPresent =
                       Abs(dist - g.referenceDist) > detectionThreshold]
    IN  IF ~RisingEdge(seen)
        THEN [g |-> seen, event |-> "idle", logged |-> << >>, writes |-> {}]
        ELSE IF ~seen.hasStarted
        THEN [g |-> firstCrossing(seen, now),
              event |-> "start", logged |-> << >>, writes |-> {}]
        ELSE
        LET lapMs == now - seen.lapStartMs
        IN  IF SpuriousLap(lapMs)
            THEN [g |-> ignoredCrossing(seen, now), event |-> "short",
                  logged |-> << >>, writes |-> {}]
            ELSE LET r == logLap([seen EXCEPT !.lastLapMs = lapMs], lapMs)
                 IN  [g |-> [r.g EXCEPT !.lapStartMs = now,
                                        !.lapRunning = TRUE],
                      event |-> "lap", logged |-> << lapMs >>,
                      writes |-> r.writes]

\* handleRoot and handleStatus (lines 445-478) write no global; both answer
\* 200.  handleStatus shows a lap time only under the condition of line 454.
handleRoot(g) == [g |-> g, status |-> 200]

handleStatus(g, now) ==
    [g |-> g, status |-> 200,
     currentLapMs |-> IF g.lapRunning /\ g.refSet /\ g.armed /\ g.hasStarted
                      THEN now - g.lapStartMs ELSE 0]

\* handleSetRef without line 496: the lap counter is kept.
handleSetRef_CounterKept(g, dist) ==
    [g |-> [g EXCEPT
              !.referenceDist = dist, !.refSet = TRUE,
              !.lapRunning = FALSE, !.lastLapMs = 0, !.lapStartMs = 0,
              !.objectPresent = FALSE, !.lastObjectPresent = FALSE,
              !.armed = FALSE, !.hasStarted = FALSE,
              !.lapHistoryCount = 0],
     status |-> 200]

\* handleSetRef (lines 481-499), on the distance readDistance() returns.
handleSetRef(g, dist) ==
    [g |-> [readDistance(g) EXCEPT
              !.referenceDist = dist, !.refSet = TRUE,
              !.lapRunning = FALSE, !.lastLapMs = 0, !.lapStartMs = 0,
              !.objectPresent = FALSE, !.lastObjectPresent = FALSE,
              !.armed = FALSE, !.hasStarted = FALSE,
              !.lapHistoryCount = 0, !.lapCounter = 0],
     status |-> 200]

\* handleResetLap without line 508: the timer stays armed.
handleResetLap_StillArmed(g) ==
    [g |-> [g EXCEPT
              !.lapRunning = FALSE, !.lastLapMs = 0, !.lapStartMs = 0,
              !.objectPresent = FALSE, !.lastObjectPresent = FALSE,
              !.hasStarted = FALSE],
     status |-> 200]

\* handleResetLap without line 503.
handleResetLap_Running(g) ==
    [g |-> [g EXCEPT
              !.lastLapMs = 0, !.lapStartMs = 0,
              !.objectPresent = FALSE, !.lastObjectPresent = FALSE,
              !.armed = FALSE, !.hasStarted = FALSE],
     status |-> 200]

\* handleResetLap (lines 502-512).
handleResetLap(g) ==
    [g |-> [g EXCEPT
              !.lapRunning = FALSE, !.lastLapMs = 0, !.lapStartMs = 0,
              !.objectPresent = FALSE, !.lastObjectPresent = FALSE,
              !.armed = FALSE, !.hasStarted = FALSE],
     status |-> 200]

\* handleNewCsv47 and handleNewCsv47x (lines 515-542).
handleNewCsv47(g, opens) ==
    IF ~g.sdOk THEN [g |-> g, status |-> 500]
    ELSE LET h == startNewCsvMidget47(g, opens)
         IN  [g |-> h, status |-> IF h.logFile THEN 200 ELSE 500]

handleNewCsv47x(g, opens) ==
    IF ~g.sdOk THEN [g |-> g, status |-> 500]
    ELSE LET h == startNewCsvMidget47x(g, opens)
         IN  [g |-> h, status |-> IF h.logFile THEN 200 ELSE 500]

\* handleClearSd (lines 545-557).
handleClearSd(g, opens) ==
    IF ~g.sdOk THEN [g |-> g, status |-> 500]
    ELSE LET r == clearSdCard(g, opens)
         IN  [g |-> r.g, status |-> IF r.ok THEN 200 ELSE 500]

\* handleGo without the check of lines 561-564.
handleGo_Unchecked(g) ==
    [g |-> [g EXCEPT
              !.armed = TRUE,
              !.lapRunning = FALSE, !.lastLapMs = 0, !.lapStartMs = 0,
              !.objectPresent = FALSE, !.lastObjectPresent = FALSE,
              !.hasStarted = FALSE],
     status |-> 200]

\* handleGo (lines 560-576).
handleGo(g) ==
    IF ~g.refSet THEN [g |-> g, status |-> 400]
    ELSE [g |-> [g EXCEPT
                   !.armed = TRUE,
                   !.lapRunning = FALSE, !.lastLapMs = 0, !.lapStartMs = 0,
                   !.objectPresent = FALSE, !.lastObjectPresent = FALSE,
                   !.hasStarted = FALSE],
          status |-> 200]

\* The routes of the web server (lines 606-613).
Routes == {"/", "/status", "/setRef", "/resetLap", "/newCsv47", "/newCsv47x",
           "/clearSd", "/go"}

\* The handler of a route, on the distance the rangefinder returns and on
\* whether the SD card opens what it is asked to.
Serve(route, g, dist, opens, now) ==
    CASE route = "/"          -> handleRoot(g)
      [] route = "/status"    -> [x \in {"g", "status"} |->
                                     handleStatus(g, now)[x]]
      [] route = "/setRef"    -> handleSetRef(g, dist)
      [] route = "/resetLap"  -> handleResetLap(g)
      [] route = "/newCsv47"  -> handleNewCsv47(g, opens)
      [] route = "/newCsv47x" -> handleNewCsv47x(g, opens)
      [] route = "/clearSd"   -> handleClearSd(g, opens)
      [] route = "/go"        -> handleGo(g)

\* The requests that start a new timing run when they are served.
Rearming == {"/setRef", "/resetLap", "/go"}

\* The sampling branch of a pass of loop() (lines 619-632): the distance
\* read is one of dists, and millis() has advanced by one of steps since
\* the sample before.
loopSampleFrom(dists, steps, maxSamples) ==
    /\ lapEnv.samples < maxSamples
    /\ \E dist \in dists, step \in steps :
         LET nowMs == lapEnv.millis + step
             read == [readDistance(lapTimer) EXCEPT !.currentDistance = dist]
             r == updateLapLogic(read, dist, nowMs)
         IN  /\ lapTimer' = r.g
             /\ lapEnv' =
                  [lapEnv EXCEPT
                     !.millis = nowMs,
                     !.samples = lapEnv.samples + 1,
                     !.op = "sample", !.dist = dist, !.status = 0,
                     !.event = r.event, !.logged = r.logged,
                     !.writes = r.writes,
                     !.sumLaps = IF r.event = "lap"
                                 THEN lapEnv.sumLaps + r.g.lastLapMs
                                 ELSE lapEnv.sumLaps,
                     !.firstCrossMs = IF r.event = "start" THEN nowMs
                                      ELSE lapEnv.firstCrossMs,
                     !.lastCrossMs = IF r.event \in {"start", "lap"}
                                     THEN nowMs ELSE lapEnv.lastCrossMs,
                     !.beam = /\ lapTimer.refSet
                              /\ Abs(dist - lapTimer.referenceDist)
                                    > detectionThreshold]
    /\ UNCHANGED << sketchVars, wrapVars >>

\* The routes whose handlers read the rangefinder, and those whose handlers
\* ask the SD card to open a file or its root.
RangeRoutes == {"/setRef"}
SdRoutes == {"/newCsv47", "/newCsv47x", "/clearSd"}

\* server.handleClient() of a pass of loop() (line 635) with a request
\* waiting: the handler of its route runs.
handleClientFrom(routes, dists, maxRequests) ==
    /\ lapEnv.requests < maxRequests
    /\ \E route \in routes :
       \E dist \in IF route \in RangeRoutes THEN dists ELSE {0},
          opens \in IF route \in SdRoutes THEN BOOLEAN ELSE {TRUE} :
         LET r == Serve(route, lapTimer, dist, opens, lapEnv.millis)
             rearmed == route \in Rearming
         IN  /\ lapTimer' = r.g
             /\ lapEnv' =
                  [lapEnv EXCEPT
                     !.requests = lapEnv.requests + 1,
                     !.op = route,
                     !.dist = dist,
                     !.status = r.status,
                     !.event = "none", !.logged = << >>, !.writes = {},
                     !.sumLaps = IF rearmed THEN 0 ELSE lapEnv.sumLaps,
                     !.firstCrossMs = IF rearmed THEN 0
                                      ELSE lapEnv.firstCrossMs,
                     !.lastCrossMs = IF rearmed THEN 0
                                     ELSE lapEnv.lastCrossMs,
                     !.beam = IF route \in RangeRoutes THEN FALSE
                              ELSE lapEnv.beam]
    /\ UNCHANGED << sketchVars, wrapVars >>

\* Distances measured, in centimetres: 30 and 31 apart, on both sides of
\* the threshold, whichever of them is the reference.
LapDists == {100, 130, 131}

\* Advances of millis() between two samples: two of them fall short of
\* MIN_LAP_TIME_MS, reach it exactly or pass it.
LapSteps == {400, 600}

loopSample == loopSampleFrom(LapDists, LapSteps, MaxLapSamples)

handleClient == handleClientFrom(Routes, LapDists, MaxRequests)

\* The lap timer at the end of setup(), with or without an SD card.
LapInit ==
    /\ InitSketch
    /\ InitWrap
    /\ \E sdBegins \in BOOLEAN : lapTimer = setupLidar(LidarGlobals, sdBegins)
    /\ lapEnv = LapEnvStart

\* A pass of loop() samples when a sample is due and then serves a request
\* when one waits; the two halves are steps of their own.
LapNext == loopSample \/ handleClient

LapSpec == LapInit /\ [][LapNext]_vars

\* A long session: a car crosses the beam at every other sample, each lap a
\* little slower than the one before (1000 ms, 1002 ms, ...), while the few
\* requests that set the timer up are served at any time.
MaxHistSamples == 45
MaxHistRequests == 3

HistDists ==
    {IF lapEnv.beam THEN lapTimer.referenceDist
     ELSE lapTimer.referenceDist + detectionThreshold + 1}

HistSteps == {(MIN_LAP_TIME_MS \div 2) + lapTimer.lapCounter}

HistRoutes == {"/setRef", "/newCsv47", "/go"}

sessionSample == loopSampleFrom(HistDists, HistSteps, MaxHistSamples)

sessionClient == handleClientFrom(HistRoutes, {100}, MaxHistRequests)

HistNext == sessionSample \/ sessionClient

HistSpec == LapInit /\ [][HistNext]_vars

\* The long session with one request more, and with the requests for a
\* file of the other car and for wiping the card among them: after laps
\* were logged the reference is set again, a new file is started or the
\* card is cleared.
MaxResetRequests == 4

ResetRoutes == {"/setRef", "/newCsv47", "/newCsv47x", "/go", "/clearSd"}

resetClient == handleClientFrom(ResetRoutes, {100}, MaxResetRequests)

ResetNext == sessionSample \/ resetClient

ResetSpec == LapInit /\ [][ResetNext]_vars

-----------------------------------------------------------------------------
(* The lap timer: claims *)

\* C23: armed implies refSet in every reachable state, whatever the order
\* of requests and samples: handleGo arms (and answers 200) only when the
\* reference is set and otherwise answers 400 and changes no global;
\* handleSetRef and handleResetLap leave the timer disarmed; and refSet,
\* once true, stays true.
C23_ArmedNeedsRef ==
    /\ [](lapTimer.armed => lapTimer.refSet)
    /\ [][ /\ lapTimer.refSet => lapTimer'.refSet
           /\ lapEnv'.op = "/go" =>
                IF lapTimer.refSet
                THEN lapTimer'.armed /\ lapEnv'.status = 200
                ELSE lapEnv'.status = 400 /\ lapTimer' = lapTimer
           /\ lapEnv'.op \in {"/setRef", "/resetLap"} => ~lapTimer'.armed
         ]_vars

\* Armed by /go after samples were taken, with the reference set.
C23_Witness ==
    /\ lapEnv.op = "/go" /\ lapEnv.status = 200
    /\ lapTimer.armed /\ lapTimer.refSet
    /\ lapEnv.samples > 0 /\ lapEnv.requests = MaxRequests

\* C24: a sample taken while refSet is false or armed is false leaves the
\* lap state as it was, whatever the distance: updateLapLogic returns at
\* once, and of the globals only cal_cnt (readDistance) and currentDistance
\* (loop) are written; objectPresent, lastObjectPresent, hasStarted,
\* lapRunning, lapStartMs, lastLapMs, lapCounter and the history keep their
\* values.
C24_OnlyWhenArmed ==
    [][ (lapEnv'.op = "sample" /\ (~lapTimer.refSet \/ ~lapTimer.armed)) =>
          /\ lapEnv'.event = "off"
          /\ lapTimer' = [lapTimer EXCEPT
                             !.cal_cnt = lapTimer'.cal_cnt,
                             !.currentDistance = lapEnv'.dist] ]_vars

\* A sample that sees an object in the beam while the reference is set and
\* the timer, armed before, is disarmed: nothing is in progress.
C24_Witness ==
    /\ lapEnv.op = "sample" /\ lapEnv.event = "off"
    /\ lapTimer.refSet /\ ~lapTimer.armed
    /\ lapEnv.requests = MaxRequests
    /\ Abs(lapTimer.currentDistance - lapTimer.referenceDist)
          > detectionThreshold
    /\ ~lapTimer.objectPresent /\ ~lapTimer.hasStarted

\* The lap history: the count and the two arrays.
LapHistory(g) == << g.lapHistoryCount, g.lapNumbers, g.lapTimesMsArr >>

\* Whether a distance differs from the reference by more than the threshold
\* (line 407).
Present(g, dist) == Abs(dist - g.referenceDist) > detectionThreshold

\* C25: the first rising edge of objectPresent after handleGo, which is the
\* first sample after it that sees the object present, starts the timing
\* and records no lap: it sets hasStarted and lapRunning and sets
\* lapStartMs to the time of the sample, passes nothing to logLap, and
\* leaves lastLapMs, lapCounter and the history as they were; a sample that
\* sees no object before that starts nothing.
C25_FirstCrossingStarts ==
    [][ (lapEnv'.op = "sample" /\ lapTimer.armed /\ ~lapTimer.hasStarted) =>
          IF Present(lapTimer, lapEnv'.dist)
          THEN /\ lapTimer'.hasStarted /\ lapTimer'.lapRunning
               /\ lapTimer'.lapStartMs = lapEnv'.millis
               /\ lapEnv'.logged = << >>
               /\ lapTimer'.lastLapMs = lapTimer.lastLapMs
               /\ lapTimer'.lapCounter = lapTimer.lapCounter
               /\ LapHistory(lapTimer') = LapHistory(lapTimer)
          ELSE /\ ~lapTimer'.hasStarted /\ ~lapTimer'.lapRunning
               /\ lapTimer'.lapStartMs = lapTimer.lapStartMs ]_vars

\* The first crossing, with a CSV file open, after a sample that saw no
\* object.
C25_Witness ==
    /\ lapEnv.op = "sample" /\ lapEnv.event = "start"
    /\ lapTimer.hasStarted /\ lapTimer.lapRunning
    /\ lapTimer.lapStartMs = lapEnv.millis /\ lapEnv.samples = 2
    /\ lapTimer.lastObjectPresent = FALSE
    /\ lapTimer.logFile /\ lapTimer.lastLapMs = 0

\* C26: laps shorter than MIN_LAP_TIME_MS are ignored.  Every lap time in
\* the history is at least 1000 ms; a sample passes to logLap, and assigns
\* to lastLapMs, only times of at least 1000 ms; and while a lap is being
\* timed, a rising edge less than 1000 ms after lapStartMs passes nothing to
\* logLap and leaves lapStartMs, lastLapMs, lapCounter and the history as
\* they were.
C26_ShortLapsIgnored ==
    /\ [](\A i \in LapSlots :
             i < lapTimer.lapHistoryCount =>
                lapTimer.lapTimesMsArr[i] >= MIN_LAP_TIME_MS)
    /\ [][ lapEnv'.op = "sample" =>
             /\ \A k \in 1 .. Len(lapEnv'.logged) :
                   lapEnv'.logged[k] >= MIN_LAP_TIME_MS
             /\ \/ lapTimer'.lastLapMs = lapTimer.lastLapMs
                \/ lapTimer'.lastLapMs >= MIN_LAP_TIME_MS
             /\ ( /\ lapTimer.armed /\ lapTimer.hasStarted
                  /\ ~lapTimer.objectPresent
                  /\ Present(lapTimer, lapEnv'.dist)
                  /\ lapEnv'.millis - lapTimer.lapStartMs < MIN_LAP_TIME_MS )
                => /\ lapEnv'.logged = << >>
                   /\ lapTimer'.lapStartMs = lapTimer.lapStartMs
                   /\ lapTimer'.lastLapMs = lapTimer.lastLapMs
                   /\ lapTimer'.lapCounter = lapTimer.lapCounter
                   /\ LapHistory(lapTimer') = LapHistory(lapTimer) ]_vars

\* A crossing 800 ms after the first one, with a CSV file open: ignored, and
\* the lap that began at the first crossing is still being timed.
C26_Witness ==
    /\ lapEnv.op = "sample" /\ lapEnv.event = "short"
    /\ lapTimer.objectPresent /\ ~lapTimer.lastObjectPresent
    /\ lapTimer.hasStarted /\ lapTimer.lapRunning /\ lapTimer.logFile
    /\ lapEnv.millis - lapTimer.lapStartMs = 800
    /\ lapTimer.lastLapMs = 0 /\ lapTimer.lapCounter = 0

\* C27: a lap event happens only on a rising edge of object presence: a
\* sample that sees the object present, when the measurement before it saw
\* it present too, changes none of lapStartMs, lastLapMs and lapCounter.
C27_RisingEdgeOnly ==
    [][ ( /\ lapEnv'.op = "sample"
          /\ lapEnv.beam
          /\ Present(lapTimer, lapEnv'.dist) )
        => /\ lapTimer'.lapStartMs = lapTimer.lapStartMs
           /\ lapTimer'.lastLapMs = lapTimer.lastLapMs
           /\ lapTimer'.lapCounter = lapTimer.lapCounter ]_vars

\* C28: continuous lap mode leaves no gaps.  Once the first crossing has
\* occurred, lapStartMs is the time of the latest crossing that started or
\* completed a lap, and the lap times assigned to lastLapMs since handleGo
\* sum to the time of that crossing minus the time of the first crossing,
\* crossings ignored as too short included in the lap in progress; before
\* the first crossing nothing has been summed.
C28_NoGaps ==
    IF lapTimer.hasStarted
    THEN /\ lapTimer.lapStartMs = lapEnv.lastCrossMs
         /\ lapEnv.sumLaps = lapEnv.lastCrossMs - lapEnv.firstCrossMs
    ELSE lapEnv.sumLaps = 0

\* Two laps of 1000 ms each after a first crossing at 400 ms.
C28_Witness ==
    /\ lapEnv.op = "sample" /\ lapEnv.event = "lap"
    /\ lapTimer.hasStarted
    /\ lapEnv.firstCrossMs = 400 /\ lapEnv.lastCrossMs = 2400
    /\ lapTimer.lastLapMs = 1000 /\ lapEnv.sumLaps = 2000

\* C29: lapRunning equals hasStarted, and hasStarted implies armed and
\* refSet, in every reachable state; so the condition under which
\* handleStatus shows a running lap (line 454) is lapRunning itself, and a
\* running lap is shown only while armed and after the first crossing.
C29_RunningIffStarted ==
    /\ lapTimer.lapRunning = lapTimer.hasStarted
    /\ lapTimer.hasStarted => (lapTimer.armed /\ lapTimer.refSet)
    /\ handleStatus(lapTimer, lapEnv.millis).currentLapMs # 0 =>
          (lapTimer.armed /\ lapTimer.hasStarted)

\* A lap is running, 600 ms after a lap of 1000 ms was completed.
C29_Witness ==
    /\ lapTimer.lapRunning /\ lapTimer.hasStarted
    /\ lapTimer.armed /\ lapTimer.refSet
    /\ lapTimer.lastLapMs = 1000
    /\ handleStatus(lapTimer, lapEnv.millis).currentLapMs = 600

\* C30: the lap history is a bounded FIFO.  lapHistoryCount stays in
\* [0, MAX_LAPS_IN_MEMORY] and every array index written is in [0, 19]; a
\* lap logged while the history is not full is stored behind the entries
\* there are; a lap logged while it is full moves every entry one place
\* down, dropping the oldest, and is stored last, the count staying 20.
C30_BoundedFifo ==
    /\ [](/\ lapTimer.lapHistoryCount \in 0 .. MAX_LAPS_IN_MEMORY
          /\ lapEnv.writes \subseteq LapSlots)
    /\ [][ (lapEnv'.op = "sample" /\ lapEnv'.writes # {}) =>
             LET n == lapTimer.lapHistoryCount
                 kept == IF n < MAX_LAPS_IN_MEMORY THEN n
                         ELSE MAX_LAPS_IN_MEMORY - 1
                 from == IF n < MAX_LAPS_IN_MEMORY THEN 0 ELSE 1
             IN  /\ lapTimer'.lapHistoryCount = kept + 1
                 /\ \A i \in 0 .. (kept - 1) :
                       /\ lapTimer'.lapNumbers[i] = lapTimer.lapNumbers[i + from]
                       /\ lapTimer'.lapTimesMsArr[i]
                             = lapTimer.lapTimesMsArr[i + from]
                 /\ lapTimer'.lapNumbers[kept] = lapTimer'.lapCounter
                 /\ lapTimer'.lapTimesMsArr[kept] = lapTimer'.lastLapMs ]_vars

\* Lap 22 has been logged: the history holds laps 3 to 22, oldest first,
\* each with its own time.
C30_Witness ==
    /\ lapTimer.lapCounter = 22 /\ lapTimer.lapHistoryCount = MAX_LAPS_IN_MEMORY
    /\ lapTimer.lapNumbers[0] = 3 /\ lapTimer.lapNumbers[19] = 22
    /\ lapTimer.lapTimesMsArr[0] = 1004 /\ lapTimer.lapTimesMsArr[19] = 1042
    /\ lapEnv.writes = LapSlots

\* C31: lap numbering is consistent with the history after any sequence of
\* requests and crossings.  lapHistoryCount is the smaller of lapCounter and
\* MAX_LAPS_IN_MEMORY, and the lap numbers in the history are the
\* consecutive integers that end at lapCounter.  The two counts are reset
\* together: handleSetRef, a new CSV file that opens and a cleared card
\* leave both at 0; neither count falls in any other step, and one is never
\* set to 0 while the other keeps a value that is not 0.
C31_NumberingConsistent ==
    /\ [](LET n == lapTimer.lapHistoryCount
              c == lapTimer.lapCounter
          IN  /\ n = (IF c < MAX_LAPS_IN_MEMORY THEN c ELSE MAX_LAPS_IN_MEMORY)
              /\ \A i \in LapSlots :
                    i < n => lapTimer.lapNumbers[i] = c - n + 1 + i)
    /\ [][ /\ (\/ lapEnv'.op = "/setRef"
               \/ (lapEnv'.op \in SdRoutes /\ lapEnv'.status = 200)) =>
                 (lapTimer'.lapCounter = 0 /\ lapTimer'.lapHistoryCount = 0)
           /\ (\/ lapTimer'.lapCounter < lapTimer.lapCounter
               \/ lapTimer'.lapHistoryCount < lapTimer.lapHistoryCount) =>
                 /\ lapTimer'.lapCounter = 0 /\ lapTimer'.lapHistoryCount = 0
                 /\ lapEnv'.op \in {"/setRef"} \cup SdRoutes
         ]_vars

\* The reference is set again after 21 laps were logged, 20 of them in the
\* history: both counts are back at 0.
C31_Witness ==
    /\ lapEnv.op = "/setRef" /\ lapEnv.requests = MaxResetRequests
    /\ lapEnv.sumLaps = 0 /\ lapEnv.samples >= 43
    /\ lapTimer.lapCounter = 0 /\ lapTimer.lapHistoryCount = 0
    /\ lapTimer.lapNumbers[0] = 2
    /\ lapTimer.lapNumbers[MAX_LAPS_IN_MEMORY - 1] = MAX_LAPS_IN_MEMORY + 1

\* C32: a valid lap completed while the SD card is unavailable or no CSV
\* file is open is not counted.  The sample that completes it passes the
\* lap time to logLap, which returns at once: lapCounter and the lap history
\* keep their values and no array slot is written; updateLapLogic still
\* sets lastLapMs to the lap time, which is at least MIN_LAP_TIME_MS, and
\* sets lapStartMs to the time of the sample for the next lap.
C32_UnloggedLapStillTimed ==
    [][ (/\ lapEnv'.op = "sample" /\ lapEnv'.event = "lap"
         /\ (~lapTimer.sdOk \/ ~lapTimer.logFile)) =>
          /\ lapEnv'.logged = << lapEnv'.millis - lapTimer.lapStartMs >>
          /\ lapTimer'.lapCounter = lapTimer.lapCounter
          /\ LapHistory(lapTimer') = LapHistory(lapTimer)
          /\ lapEnv'.writes = {}
          /\ lapTimer'.lastLapMs = lapEnv'.millis - lapTimer.lapStartMs
          /\ lapTimer'.lastLapMs >= MIN_LAP_TIME_MS
          /\ lapTimer'.lapStartMs = lapEnv'.millis
          /\ lapTimer'.lapRunning ]_vars

\* A lap of 1000 ms completed with the SD card present and no file open,
\* the attempt to open one having failed: it is timed and not counted.
C32_Witness ==
    /\ lapEnv.op = "sample" /\ lapEnv.event = "lap"
    /\ lapTimer.sdOk /\ ~lapTimer.logFile /\ lapTimer.midget47Index = 1
    /\ lapEnv.logged = << 1000 >> /\ lapTimer.lastLapMs = 1000
    /\ lapTimer.lapStartMs = lapEnv.millis
    /\ lapTimer.lapCounter = 0 /\ lapTimer.lapHistoryCount = 0

\* C33: handleResetLap resets the lap without touching the reference.  It
\* clears lapRunning, hasStarted, lastLapMs, lapStartMs, objectPresent and
\* lastObjectPresent, disarms, and leaves every other global as it was:
\* referenceDist, refSet, lapCounter, the lap history, the open file, its
\* name and prefix and the two indexes.  Afterwards no lap is started or
\* recorded until handleGo is called: only the step of /go turns armed
\* from false to true, and a sample taken while disarmed starts nothing,
\* passes nothing to logLap and leaves the lap state as it was.
C33_ResetLapKeepsReference ==
    [][ /\ lapEnv'.op = "/resetLap" =>
              /\ lapEnv'.status = 200
              /\ lapTimer' = [lapTimer EXCEPT
                                !.lapRunning = FALSE, !.hasStarted = FALSE,
                                !.lastLapMs = 0, !.lapStartMs = 0,
                                !.objectPresent = FALSE,
                                !.lastObjectPresent = FALSE,
                                !.armed = FALSE]
        /\ (~lapTimer.armed /\ lapTimer'.armed) => lapEnv'.op = "/go"
        /\ (lapEnv'.op = "sample" /\ ~lapTimer.armed) =>
              /\ lapEnv'.event = "off" /\ lapEnv'.logged = << >>
              /\ lapTimer'.hasStarted = lapTimer.hasStarted
              /\ lapTimer'.lapRunning = lapTimer.lapRunning
              /\ lapTimer'.lapStartMs = lapTimer.lapStartMs
              /\ lapTimer'.lastLapMs = lapTimer.lastLapMs
              /\ lapTimer'.lapCounter = lapTimer.lapCounter
              /\ LapHistory(lapTimer') = LapHistory(lapTimer) ]_vars

\* The lap is reset by the third request, after the one sample of the
\* session read 131 cm: the reference of 100 cm stands, the timer is
\* disarmed and nothing is in progress.
C33_Witness ==
    /\ lapEnv.op = "/resetLap" /\ lapEnv.status = 200
    /\ lapEnv.requests = MaxRequests /\ lapEnv.samples = 1
    /\ lapEnv.millis = 400
    /\ lapTimer.refSet /\ lapTimer.referenceDist = 100
    /\ lapTimer.currentDistance = 131
    /\ ~lapTimer.armed /\ ~lapTimer.hasStarted /\ ~lapTimer.lapRunning
    /\ lapTimer.lapStartMs = 0 /\ ~lapTimer.objectPresent

\* C34: opening a new CSV file either succeeds in full or leaves no current
\* file.  With the SD card not initialized the two handlers answer 500 and
\* change no global, the index of the car included.  With the card
\* initialized the index of the car is incremented; when the open fails
\* the answer is 500, no file is open, currentFilename and currentPrefix
\* are empty and lapCounter and the history are as they were; when it
\* succeeds the answer is 200, the file is open, currentPrefix is the
\* prefix of the car, currentFilename is made of it and the incremented
\* index, and lapCounter and lapHistoryCount are 0.
C34_NewCsvAllOrNothing ==
    [][ \A car \in {[route |-> "/newCsv47", prefix |-> "midget47",
                      index |-> lapTimer.midget47Index,
                      index2 |-> lapTimer'.midget47Index],
                     [route |-> "/newCsv47x", prefix |-> "midget47x",
                      index |-> lapTimer.midget47xIndex,
                      index2 |-> lapTimer'.midget47xIndex]} :
          lapEnv'.op = car.route =>
            IF ~lapTimer.sdOk
            THEN lapEnv'.status = 500 /\ lapTimer' = lapTimer
            ELSE /\ car.index2 = car.index + 1
                 /\ IF lapEnv'.status = 200
                    THEN /\ lapTimer'.logFile
                         /\ lapTimer'.currentPrefix = car.prefix
                         /\ lapTimer'.currentFilename
                               = makeFilename(car.prefix, car.index + 1)
                         /\ lapTimer'.lapCounter = 0
                         /\ lapTimer'.lapHistoryCount = 0
                    ELSE /\ lapEnv'.status = 500
                         /\ ~lapTimer'.logFile
                         /\ lapTimer'.currentFilename = ""
                         /\ lapTimer'.currentPrefix = ""
                         /\ lapTimer'.lapCounter = lapTimer.lapCounter
                         /\ LapHistory(lapTimer') = LapHistory(lapTimer)
      ]_vars

\* A second file is asked for after three laps were logged in the first,
\* and cannot be opened: no file is current, and the three laps are still
\* counted and in the history.
C34_Witness ==
    /\ lapEnv.op = "/newCsv47" /\ lapEnv.status = 500
    /\ lapTimer.sdOk /\ ~lapTimer.logFile
    /\ lapTimer.midget47Index = 2
    /\ lapTimer.currentFilename = "" /\ lapTimer.currentPrefix = ""
    /\ lapTimer.lapCounter = 3 /\ lapTimer.lapHistoryCount = 3

\* C35: a tach snapshot of zero pulses carries the no-data sentinel.  Once
\* loop() has read both tach_pulseCount and tach_minDtUs (lines 506-507),
\* and until the next snapshot begins, pulses = 0 implies minDtUs =
\* 0xFFFFFFFF, however the runs of rpmISR fall between the statements of
\* loop().  The globals agree in the same way wherever rpmISR or a snapshot
\* can see them; tach_minDtUs changes only in a run of rpmISR, which also
\* counts a pulse, and in the reset of line 509, and both resets are made
\* with interrupts masked.
C35_ZeroPulsesCarrySentinel ==
    /\ [](/\ tach_pc \in {"resetCount", "resetMin", "interrupts", "out"} =>
               (pulses = 0 => minDtUs = Max32)
          /\ tach_pc # "resetMin" =>
               (tach_pulseCount = 0 => tach_minDtUs = Max32))
    /\ [][ /\ tach_minDtUs' # tach_minDtUs =>
                \/ /\ tach_pulseCount' = tach_pulseCount + 1
                   /\ isr_calls' = isr_calls + 1
                   /\ ~int_masked
                \/ /\ tach_minDtUs' = Max32 /\ tach_pulseCount = 0
                   /\ int_masked /\ int_masked'
           /\ tach_pulseCount' < tach_pulseCount =>
                /\ tach_pulseCount' = 0 /\ int_masked /\ int_masked'
         ]_vars

\* The second snapshot, of a window without a pulse, after a first of two
\* pulses, whose gap had replaced the sentinel.
C35_Witness ==
    /\ tach_pc = "interrupts" /\ iter = 1
    /\ pulses = 0 /\ minDtUs = Max32
    /\ tach_reported = 2 /\ isr_calls = 2
    /\ tach_lastPulseMicros # U32(0, 0)

====
